---- MODULE Spec2Model ----
(***************************************************************************)
(* Schema analysis engine of orion-schema: analyzeSchema and the functions *)
(* it composes (unwrapType, extractEntities, extractOperations,            *)
(* buildRelationships, enrichEntitiesWithRelationships).                   *)
(*                                                                         *)
(* Encoding of the introspection data (types.ts):                          *)
(*   - a string is a TLA+ string; String methods are modelled on it with   *)
(*     Len, SubSeq and \o;                                                 *)
(*   - an IntrospectionTypeRef is the sequence of the nodes of its ofType  *)
(*     chain, outermost first: node i has a non-null ofType iff            *)
(*     i < Len(chain); the empty sequence is a null/undefined reference;   *)
(*   - a null name is the value NullName;                                  *)
(*   - a type with fields: null has hasFields = FALSE;                     *)
(*   - schema.queryType etc. is [isNull |-> TRUE] or                       *)
(*     [isNull |-> FALSE, name |-> n];                                     *)
(*   - the description of a type is an optional field of its record, a     *)
(*     type without it has description null; the descriptions of fields,   *)
(*     arguments and operations are copied through by the code and are     *)
(*     left out.                                                           *)
(***************************************************************************)
EXTENDS Integers, Sequences, FiniteSets, TLC

\* Bounds of the explored inputs.
MaxDepth == 3
MaxFields == 2
MaxTraitFields == 2
MaxArgs == 2
MaxCacheTypes == 4
MaxCalls == 2
MaxTimeout == 2
MaxAnalyses == 2
MaxRenderings == 2
MaxResolutions == 2

\* analyzeSchema and generateBasicConfig
VARIABLES schema, pc, typeMap, entities, queries, mutations, relationships,
          config

\* The caller of the analysis: the calls of analyzeSchema that have finished,
\* each with the schema given and the completion received, and the texts
\* generateSchemaSummary returned for the running analysis
VARIABLES analyses, summaries

\* generateCacheConfig: the options, the provider's answer, the HTTP requests
\* issued so far and the promise returned
VARIABLES gpc, aiConfig, preferences, server, requests, generation

\* The credential and endpoint operations of introspection.ts: the operation
\* called and its position, the two files under ~/.config/orion, the local
\* `credentials` of saveAIKeyToCredentials, the answer of the tested endpoint,
\* the promise the operation returned and the number of calls so far
VARIABLES cop, cpc, credentialsFile, tfstateFile, credentials, endpointServer,
          outcome, calls

\* fetchSchema: its position, the caller's timeout, the time elapsed since
\* the call, whether the timeout is scheduled, whether the request was
\* aborted, how much of the response the server has delivered, what the
\* server answers, and the promise returned
VARIABLES fpc, timeout, clock, timer, aborted, delivered, origin, introspection

callerVars == <<analyses, summaries>>

\* unwrapType called by itself: the type reference the caller holds and the
\* completions of its calls so far
VARIABLES reference, resolutions

resolverVars == <<reference, resolutions>>

analyzerVars ==
  <<schema, pc, typeMap, entities, queries, mutations, relationships, config,
    callerVars>>

generatorVars == <<gpc, aiConfig, preferences, server, requests, generation>>

collaboratorVars ==
  <<cop, cpc, credentialsFile, tfstateFile, credentials, endpointServer, outcome,
    calls>>

fetchVars == <<fpc, timeout, clock, timer, aborted, delivered, origin, introspection>>

outsideAnalyzer == <<generatorVars, collaboratorVars, fetchVars, resolverVars>>

outsideGenerator == <<analyzerVars, collaboratorVars, fetchVars, resolverVars>>

outsideCollaborators == <<analyzerVars, generatorVars, fetchVars, resolverVars>>

outsideFetch == <<analyzerVars, generatorVars, collaboratorVars, resolverVars>>

outsideResolver == <<analyzerVars, generatorVars, collaboratorVars, fetchVars>>

vars == <<analyzerVars, generatorVars, collaboratorVars, fetchVars, resolverVars>>

----------------------------------------------------------------------------
\* JavaScript String methods.

UpperLetters == "ABCDEFGHIJKLMNOPQRSTUVWXYZ"
LowerLetters == "abcdefghijklmnopqrstuvwxyz"

CharToLower ==
  [c \in {SubSeq(UpperLetters, i, i) : i \in 1..26} |->
     LET i == CHOOSE j \in 1..26 : SubSeq(UpperLetters, j, j) = c
     IN  SubSeq(LowerLetters, i, i)]

CharToUpper ==
  [c \in {SubSeq(LowerLetters, i, i) : i \in 1..26} |->
     LET i == CHOOSE j \in 1..26 : SubSeq(LowerLetters, j, j) = c
     IN  SubSeq(UpperLetters, i, i)]

RECURSIVE toLowerCase(_)
toLowerCase(s) ==
  IF Len(s) = 0 THEN ""
  ELSE LET c == SubSeq(s, 1, 1)
       IN  (IF c \in DOMAIN CharToLower THEN CharToLower[c] ELSE c)
             \o toLowerCase(SubSeq(s, 2, Len(s)))

RECURSIVE toUpperCase(_)
toUpperCase(s) ==
  IF Len(s) = 0 THEN ""
  ELSE LET c == SubSeq(s, 1, 1)
       IN  (IF c \in DOMAIN CharToUpper THEN CharToUpper[c] ELSE c)
             \o toUpperCase(SubSeq(s, 2, Len(s)))

startsWith(s, p) == Len(p) <= Len(s) /\ SubSeq(s, 1, Len(p)) = p

endsWith(s, p) == Len(p) <= Len(s) /\ SubSeq(s, Len(s) - Len(p) + 1, Len(s)) = p

includes(s, p) ==
  \E i \in 0..(Len(s) - Len(p)) : SubSeq(s, i + 1, i + Len(p)) = p

\* s.slice(n) for 0 <= n
slice(s, n) == IF n >= Len(s) THEN "" ELSE SubSeq(s, n + 1, Len(s))

\* s.charAt(0)
charAt0(s) == IF Len(s) = 0 THEN "" ELSE SubSeq(s, 1, 1)

----------------------------------------------------------------------------
\* Introspection input values.

NullName == "<null>"

NullRoot == [isNull |-> TRUE, name |-> NullName]
Root(n) == [isNull |-> FALSE, name |-> n]

\* A terminal type reference {kind, name, ofType: null}.
Named(kind, name) == <<[kind |-> kind, name |-> name]>>

\* {kind, name: null, ofType: ref}
Wrap(kind, ref) == <<[kind |-> kind, name |-> NullName]>> \o ref

NullRef == <<>>

InputValue(name, type) == [name |-> name, type |-> type]

Field(name, type, args) == [name |-> name, type |-> type, args |-> args]

TypeWithFields(kind, name, fields) ==
  [kind |-> kind, name |-> name, hasFields |-> TRUE, fields |-> fields]

TypeNoFields(kind, name) ==
  [kind |-> kind, name |-> name, hasFields |-> FALSE, fields |-> <<>>]

\* A type, or an entity, with a description that is not null.
Described(object, description) ==
  [k \in DOMAIN object \cup {"description"} |->
     IF k = "description" THEN description ELSE object[k]]

IntrospectionSchema(q, m, s, types) ==
  [queryType |-> q, mutationType |-> m, subscriptionType |-> s, types |-> types]

----------------------------------------------------------------------------
\* analyzer/constants.ts

BUILT_IN_TYPES ==
  {"String", "Int", "Float", "Boolean", "ID", "__Schema", "__Type",
   "__TypeKind", "__Field", "__InputValue", "__EnumValue", "__Directive",
   "__DirectiveLocation"}

VOLATILE_FIELD_PATTERNS ==
  <<"updatedAt", "modifiedAt", "lastModified", "lastUpdated", "lastSeen",
    "lastActive", "viewCount", "likeCount", "commentCount", "score",
    "rating", "status", "state">>

USER_SPECIFIC_PATTERNS ==
  <<"userId", "ownerId", "authorId", "creatorId", "user", "owner", "author",
    "creator", "me", "currentUser", "viewer", "myProfile">>

SENSITIVE_FIELD_PATTERNS ==
  <<"email", "password", "passwordHash", "token", "secret", "apiKey",
    "privateKey", "ssn", "creditCard", "phone", "address", "salary",
    "balance">>

\* Object.entries(MUTATION_PATTERNS): the keys in insertion order.
MUTATION_PATTERNS ==
  <<"create", "add", "insert", "update", "edit", "modify", "delete",
    "remove", "destroy">>

extractTypeFromMutation(mutationName, prefix) ==
  LET withoutPrefix == slice(mutationName, Len(prefix))
  IN  toUpperCase(charAt0(withoutPrefix)) \o slice(withoutPrefix, 1)

----------------------------------------------------------------------------
\* analyzer/type-utils.ts

\* current.name || "Unknown": null and the empty string are falsy.
nameOrUnknown(name) == IF name = NullName \/ name = "" THEN "Unknown" ELSE name

\* The while loop of unwrapType with current = typeRef[i].
RECURSIVE unwrapFrom(_, _, _, _)
unwrapFrom(typeRef, i, isNonNull, isList) ==
  IF i < Len(typeRef)
  THEN unwrapFrom(typeRef, i + 1,
                  isNonNull \/ typeRef[i].kind = "NON_NULL",
                  isList \/ (typeRef[i].kind # "NON_NULL" /\ typeRef[i].kind = "LIST"))
  ELSE [typeName |-> nameOrUnknown(typeRef[i].name),
        isNonNull |-> isNonNull,
        isList |-> isList]

\* unwrapType looking at the outermost node only, without the loop.
unwrapTypeOutermost(typeRef) ==
  [typeName |-> nameOrUnknown(typeRef[Len(typeRef)].name),
   isNonNull |-> Len(typeRef) > 1 /\ typeRef[1].kind = "NON_NULL",
   isList |-> Len(typeRef) > 1 /\ typeRef[1].kind = "LIST"]

\* Defined for a non-null reference; on a null one the code throws a
\* TypeError at current.ofType (see refThrows).
unwrapType(typeRef) == unwrapFrom(typeRef, 1, FALSE, FALSE)

refThrows(typeRef) == typeRef = NullRef

----------------------------------------------------------------------------
\* A JavaScript Set<string> in insertion order, and Array.prototype.includes.

contains(seq, x) == \E i \in 1..Len(seq) : seq[i] = x

setAdd(seq, x) == IF contains(seq, x) THEN seq ELSE Append(seq, x)

\* Map.get: undefined when the key is absent.
mapGet(tmap, name) ==
  IF name \in DOMAIN tmap
  THEN [found |-> TRUE, value |-> tmap[name]]
  ELSE [found |-> FALSE]

----------------------------------------------------------------------------
\* analyzer/entity-extractor.ts

extractFieldInfo(field) ==
  LET u == unwrapType(field.type)
  IN  [name |-> field.name,
       typeName |-> u.typeName,
       isNonNull |-> u.isNonNull,
       isList |-> u.isList]

isReferencedType(typeName, tmap) ==
  /\ typeName \in DOMAIN tmap
  /\ tmap[typeName].kind = "OBJECT"
  /\ typeName \notin BUILT_IN_TYPES
  /\ ~startsWith(typeName, "__")

RECURSIVE findReferencedTypesFrom(_, _, _, _)
findReferencedTypesFrom(fields, tmap, i, references) ==
  IF i > Len(fields) THEN references
  ELSE LET typeName == unwrapType(fields[i].type).typeName
       IN  findReferencedTypesFrom(
             fields, tmap, i + 1,
             IF isReferencedType(typeName, tmap)
             THEN setAdd(references, typeName)
             ELSE references)

findReferencedTypes(fields, tmap) == findReferencedTypesFrom(fields, tmap, 1, <<>>)

\* somePattern comparing the lowercased field name with the pattern as written.
somePatternCaseSensitive(patterns, fieldNames) ==
  \E p \in 1..Len(patterns) :
    \E n \in 1..Len(fieldNames) : includes(fieldNames[n], patterns[p])

\* PATTERNS.some(pattern => fieldNames.some(name => name.includes(pattern.toLowerCase())))
somePattern(patterns, fieldNames) ==
  \E p \in 1..Len(patterns) :
    \E n \in 1..Len(fieldNames) :
      includes(fieldNames[n], toLowerCase(patterns[p]))

isVolatileOf(fieldNames) == somePattern(VOLATILE_FIELD_PATTERNS, fieldNames)

isUserSpecificOf(fieldNames) == somePattern(USER_SPECIFIC_PATTERNS, fieldNames)

hasSensitiveFieldsOf(fieldNames) == somePattern(SENSITIVE_FIELD_PATTERNS, fieldNames)

isCollectionOf(name) ==
  \/ endsWith(name, "Connection")
  \/ endsWith(name, "Edge")
  \/ endsWith(name, "List")
  \/ endsWith(name, "Page")

isRootTypeOf(name) == name = "Query" \/ name = "Mutation" \/ name = "Subscription"

analyzeCharacteristics(type, fields) ==
  LET fieldNames == [i \in 1..Len(fields) |-> toLowerCase(fields[i].name)]
  IN  [isVolatile |-> isVolatileOf(fieldNames),
       isUserSpecific |-> isUserSpecificOf(fieldNames),
       isCollection |-> isCollectionOf(type.name),
       hasSensitiveFields |-> hasSensitiveFieldsOf(fieldNames),
       isRootType |-> isRootTypeOf(type.name)]

hasIdOf(fields) ==
  \E i \in 1..Len(fields) :
    fields[i].name = "id" \/ fields[i].name = "_id" \/ fields[i].name = "ID"

\* isEntityType without the test of the "__" prefix.
isEntityTypeNoPrefixTest(type) ==
  /\ type.name \notin BUILT_IN_TYPES
  /\ type.kind = "OBJECT"
  /\ type.hasFields

\* The two `continue` guards of the loop of extractEntities, negated.
isEntityType(type) ==
  /\ ~(type.name \in BUILT_IN_TYPES \/ startsWith(type.name, "__"))
  /\ ~(type.kind # "OBJECT" \/ ~type.hasFields)

\* The object pushed for one type.
entityOf(type, tmap) ==
  LET fields == [i \in 1..Len(type.fields) |-> extractFieldInfo(type.fields[i])]
      entity == [name |-> type.name,
                 hasId |-> hasIdOf(type.fields),
                 fields |-> fields,
                 references |-> findReferencedTypes(type.fields, tmap),
                 referencedBy |-> <<>>,
                 characteristics |-> analyzeCharacteristics(type, fields)]
  IN  IF "description" \in DOMAIN type
      THEN Described(entity, type.description)
      ELSE entity

RECURSIVE extractEntitiesFrom(_, _, _)
extractEntitiesFrom(types, tmap, i) ==
  IF i > Len(types) THEN <<>>
  ELSE (IF isEntityType(types[i]) THEN <<entityOf(types[i], tmap)>> ELSE <<>>)
         \o extractEntitiesFrom(types, tmap, i + 1)

extractEntities(types, tmap) == extractEntitiesFrom(types, tmap, 1)

\* extractEntities throws iff a field it unwraps has a null type reference.
extractEntitiesThrows(types) ==
  \E i \in 1..Len(types) :
    /\ isEntityType(types[i])
    /\ \E f \in 1..Len(types[i].fields) : refThrows(types[i].fields[f].type)

----------------------------------------------------------------------------
\* analyzer/operation-extractor.ts

RECURSIVE inferFromPatterns(_, _, _, _)
inferFromPatterns(mutationName, tmap, p, affected) ==
  IF p > Len(MUTATION_PATTERNS) THEN affected
  ELSE LET pattern == MUTATION_PATTERNS[p]
           type == extractTypeFromMutation(mutationName, pattern)
       IN  inferFromPatterns(
             mutationName, tmap, p + 1,
             IF /\ startsWith(toLowerCase(mutationName), pattern)
                /\ type # ""
                /\ type \in DOMAIN tmap
             THEN setAdd(affected, type)
             ELSE affected)

\* inferAffectedTypes collecting into an array instead of a Set.
RECURSIVE pushFromPatterns(_, _, _, _)
pushFromPatterns(mutationName, tmap, p, affected) ==
  IF p > Len(MUTATION_PATTERNS) THEN affected
  ELSE LET pattern == MUTATION_PATTERNS[p]
           type == extractTypeFromMutation(mutationName, pattern)
       IN  pushFromPatterns(
             mutationName, tmap, p + 1,
             IF /\ startsWith(toLowerCase(mutationName), pattern)
                /\ type # ""
                /\ type \in DOMAIN tmap
             THEN Append(affected, type)
             ELSE affected)

inferAffectedTypesArray(mutationName, returnType, tmap) ==
  pushFromPatterns(
    mutationName, tmap, 1,
    IF /\ returnType \in DOMAIN tmap
       /\ tmap[returnType].kind = "OBJECT"
       /\ returnType \notin BUILT_IN_TYPES
    THEN <<returnType>>
    ELSE <<>>)

inferAffectedTypes(mutationName, returnType, tmap) ==
  LET returnTypeInfo == mapGet(tmap, returnType)
      fromReturn ==
        IF /\ returnTypeInfo.found
           /\ returnTypeInfo.value.kind = "OBJECT"
           /\ returnType \notin BUILT_IN_TYPES
        THEN <<returnType>>
        ELSE <<>>
  IN  inferFromPatterns(mutationName, tmap, 1, fromReturn)

\* argumentOf taking isRequired from the list flag.
argumentOfListFlag(arg) ==
  LET argType == unwrapType(arg.type)
  IN  [name |-> arg.name,
       typeName |-> argType.typeName,
       isRequired |-> argType.isList]

argumentOf(arg) ==
  LET argType == unwrapType(arg.type)
  IN  [name |-> arg.name,
       typeName |-> argType.typeName,
       isRequired |-> argType.isNonNull]

operationOf(field, tmap, operationType) ==
  LET u == unwrapType(field.type)
  IN  [name |-> field.name,
       returnType |-> u.typeName,
       returnsList |-> u.isList,
       arguments |-> [a \in 1..Len(field.args) |-> argumentOf(field.args[a])],
       affectedTypes |->
         IF operationType = "mutation"
         THEN inferAffectedTypes(field.name, u.typeName, tmap)
         ELSE <<>>]

\* rootType is the result of typeMap.get: [found |-> FALSE] is undefined.
extractOperations(rootType, tmap, operationType) ==
  IF ~rootType.found \/ ~rootType.value.hasFields
  THEN <<>>
  ELSE [f \in 1..Len(rootType.value.fields) |->
          operationOf(rootType.value.fields[f], tmap, operationType)]

\* extractOperations throwing on an undefined root type or a null field list.
extractOperationsThrowsOnMissingRoot(rootType) ==
  \/ ~rootType.found
  \/ ~rootType.value.hasFields
  \/ \E f \in 1..Len(rootType.value.fields) :
       LET field == rootType.value.fields[f]
       IN  \/ refThrows(field.type)
           \/ \E a \in 1..Len(field.args) : refThrows(field.args[a].type)

extractOperationsThrows(rootType) ==
  /\ rootType.found
  /\ rootType.value.hasFields
  /\ \E f \in 1..Len(rootType.value.fields) :
       LET field == rootType.value.fields[f]
       IN  \/ refThrows(field.type)
           \/ \E a \in 1..Len(field.args) : refThrows(field.args[a].type)

----------------------------------------------------------------------------
\* analyzer/relationship-builder.ts

\* fieldRelationships taking isList from the non-null flag.
RECURSIVE fieldRelationshipsNonNullFlag(_, _, _, _)
fieldRelationshipsNonNullFlag(entity, fields, entityNames, f) ==
  IF f > Len(fields) THEN <<>>
  ELSE LET u == unwrapType(fields[f].type)
       IN  (IF u.typeName \in entityNames /\ u.typeName # entity.name
            THEN <<[from |-> entity.name,
                    to |-> u.typeName,
                    fieldName |-> fields[f].name,
                    isList |-> u.isNonNull,
                    direction |-> "outgoing"]>>
            ELSE <<>>)
             \o fieldRelationshipsNonNullFlag(entity, fields, entityNames, f + 1)

RECURSIVE fieldRelationships(_, _, _, _)
fieldRelationships(entity, fields, entityNames, f) ==
  IF f > Len(fields) THEN <<>>
  ELSE LET u == unwrapType(fields[f].type)
       IN  (IF u.typeName \in entityNames /\ u.typeName # entity.name
            THEN <<[from |-> entity.name,
                    to |-> u.typeName,
                    fieldName |-> fields[f].name,
                    isList |-> u.isList,
                    direction |-> "outgoing"]>>
            ELSE <<>>)
             \o fieldRelationships(entity, fields, entityNames, f + 1)

RECURSIVE buildRelationshipsFrom(_, _, _, _)
buildRelationshipsFrom(ents, tmap, entityNames, e) ==
  IF e > Len(ents) THEN <<>>
  ELSE LET type == mapGet(tmap, ents[e].name)
       IN  (IF ~type.found \/ ~type.value.hasFields
            THEN <<>>
            ELSE fieldRelationships(ents[e], type.value.fields, entityNames, 1))
             \o buildRelationshipsFrom(ents, tmap, entityNames, e + 1)

buildRelationships(ents, tmap) ==
  buildRelationshipsFrom(ents, tmap, {ents[e].name : e \in 1..Len(ents)}, 1)

buildRelationshipsThrows(ents, tmap) ==
  \E e \in 1..Len(ents) :
    LET type == mapGet(tmap, ents[e].name)
    IN  /\ type.found
        /\ type.value.hasFields
        /\ \E f \in 1..Len(type.value.fields) : refThrows(type.value.fields[f].type)

\* new Map(entities.map(e => [e.name, e])).get(name): the index of the last
\* entity of that name, 0 for undefined.
entityMapGet(ents, name) ==
  IF \E i \in 1..Len(ents) : ents[i].name = name
  THEN CHOOSE i \in 1..Len(ents) :
         /\ ents[i].name = name
         /\ \A j \in (i + 1)..Len(ents) : ents[j].name # name
  ELSE 0

RECURSIVE enrichFrom(_, _, _)
enrichFrom(ents, rels, r) ==
  IF r > Len(rels) THEN ents
  ELSE LET rel == rels[r]
           t == entityMapGet(ents, rel.to)
       IN  IF t # 0 /\ ~contains(ents[t].referencedBy, rel.from)
           THEN enrichFrom([ents EXCEPT ![t].referencedBy = Append(@, rel.from)],
                           rels, r + 1)
           ELSE enrichFrom(ents, rels, r + 1)

\* enrichEntitiesWithRelationships with from and to exchanged.
RECURSIVE enrichSwappedFrom(_, _, _)
enrichSwappedFrom(ents, rels, r) ==
  IF r > Len(rels) THEN ents
  ELSE LET rel == rels[r]
           t == entityMapGet(ents, rel.from)
       IN  IF t # 0 /\ ~contains(ents[t].referencedBy, rel.to)
           THEN enrichSwappedFrom(
                  [ents EXCEPT ![t].referencedBy = Append(@, rel.to)], rels, r + 1)
           ELSE enrichSwappedFrom(ents, rels, r + 1)

enrichEntitiesSwapped(ents, rels) == enrichSwappedFrom(ents, rels, 1)

\* enrichEntitiesWithRelationships without the includes test.
RECURSIVE enrichAppendingFrom(_, _, _)
enrichAppendingFrom(ents, rels, r) ==
  IF r > Len(rels) THEN ents
  ELSE LET rel == rels[r]
           t == entityMapGet(ents, rel.to)
       IN  IF t # 0
           THEN enrichAppendingFrom(
                  [ents EXCEPT ![t].referencedBy = Append(@, rel.from)], rels, r + 1)
           ELSE enrichAppendingFrom(ents, rels, r + 1)

enrichEntitiesAppending(ents, rels) == enrichAppendingFrom(ents, rels, 1)

\* The entities after the in-place update of their referencedBy lists.
enrichEntitiesWithRelationships(ents, rels) == enrichFrom(ents, rels, 1)


----------------------------------------------------------------------------
\* analyzer/summary-generator.ts

\* ${value} of a name that may be null
template(name) == IF name = NullName THEN "null" ELSE name

\* ${value} of a boolean
booleanToString(b) == IF b THEN "true" ELSE "false"

\* Array.prototype.join: a null element is rendered as the empty string.
RECURSIVE joinFrom(_, _, _)
joinFrom(elements, separator, i) ==
  IF i > Len(elements) THEN ""
  ELSE (IF elements[i] = NullName THEN "" ELSE elements[i])
         \o (IF i < Len(elements) THEN separator ELSE "")
         \o joinFrom(elements, separator, i + 1)

join(elements, separator) == joinFrom(elements, separator, 1)

\* The traits pushed for the characteristics of an entity.
traitsOf(chars) ==
  (IF chars.isVolatile THEN <<"volatile">> ELSE <<>>)
    \o (IF chars.isUserSpecific THEN <<"user-specific">> ELSE <<>>)
    \o (IF chars.hasSensitiveFields THEN <<"has-sensitive-data">> ELSE <<>>)
    \o (IF chars.isCollection THEN <<"collection">> ELSE <<>>)

\* The lines pushed for one entity.
entityLines(entity) ==
  IF entity.characteristics.isRootType THEN <<>>
  ELSE <<"### " \o template(entity.name)>>
         \o (IF "description" \in DOMAIN entity /\ entity.description # ""
             THEN <<"Description: " \o entity.description>>
             ELSE <<>>)
         \o <<"- Has ID: " \o booleanToString(entity.hasId)>>
         \o <<"- Fields: "
               \o join([i \in 1..Len(entity.fields) |-> entity.fields[i].name],
                       ", ")>>
         \o (IF Len(entity.references) > 0
             THEN <<"- References: " \o join(entity.references, ", ")>>
             ELSE <<>>)
         \o (IF Len(entity.referencedBy) > 0
             THEN <<"- Referenced by: " \o join(entity.referencedBy, ", ")>>
             ELSE <<>>)
         \o (IF Len(traitsOf(entity.characteristics)) > 0
             THEN <<"- Characteristics: "
                     \o join(traitsOf(entity.characteristics), ", ")>>
             ELSE <<>>)
         \o <<"">>

\* - name(arg: Type, ...): Return
operationLine(operation) ==
  "- " \o template(operation.name) \o "("
    \o join([a \in 1..Len(operation.arguments) |->
               template(operation.arguments[a].name) \o ": "
                 \o template(operation.arguments[a].typeName)], ", ")
    \o "): "
    \o (IF operation.returnsList
        THEN "[" \o template(operation.returnType) \o "]"
        ELSE template(operation.returnType))

\* mutationLines with the Affects line pushed for every mutation.
mutationLinesAlways(mutation) ==
  <<operationLine(mutation),
    "  Affects: " \o join(mutation.affectedTypes, ", ")>>

\* The lines pushed for one mutation.
mutationLines(mutation) ==
  <<operationLine(mutation)>>
    \o (IF Len(mutation.affectedTypes) > 0
        THEN <<"  Affects: " \o join(mutation.affectedTypes, ", ")>>
        ELSE <<>>)

\* - From ->> To (via field)
relationshipLine(rel) ==
  "- " \o template(rel.from) \o " " \o (IF rel.isList THEN "->>" ELSE "->")
    \o " " \o template(rel.to) \o " (via " \o template(rel.fieldName) \o ")"

\* The concatenation of the lines f gives for the elements from i on.
RECURSIVE linesFrom(_, _, _)
linesFrom(f(_), elements, i) ==
  IF i > Len(elements) THEN <<>>
  ELSE f(elements[i]) \o linesFrom(f, elements, i + 1)

\* The array `lines` at the return.
summaryLines(analyzed) ==
  <<"# GraphQL Schema Analysis\n", "## Entity Types\n">>
    \o linesFrom(entityLines, analyzed.entities, 1)
    \o <<"## Query Operations\n">>
    \o [q \in 1..Len(analyzed.queries) |-> operationLine(analyzed.queries[q])]
    \o <<"">>
    \o (IF Len(analyzed.mutations) > 0
        THEN <<"## Mutation Operations\n">>
               \o linesFrom(mutationLines, analyzed.mutations, 1)
               \o <<"">>
        ELSE <<>>)
    \o (IF Len(analyzed.relationships) > 0
        THEN <<"## Type Relationships\n">>
               \o [r \in 1..Len(analyzed.relationships) |->
                     relationshipLine(analyzed.relationships[r])]
        ELSE <<>>)

generateSchemaSummary(analyzed) == join(summaryLines(analyzed), "\n")

----------------------------------------------------------------------------
\* ai-config-generator/config-converter.ts: generateBasicConfig

\* The if / else-if chain of the grouping loop with the first two tests
\* exchanged.
bucketOfUserSpecificFirst(entity) ==
  IF entity.characteristics.isUserSpecific THEN "userSpecific"
  ELSE IF entity.characteristics.hasSensitiveFields THEN "sensitive"
  ELSE IF entity.characteristics.isVolatile THEN "volatile"
  ELSE "stable"

\* The list one entity is pushed to by the if / else-if chain.
bucketOf(entity) ==
  IF entity.characteristics.hasSensitiveFields THEN "sensitive"
  ELSE IF entity.characteristics.isUserSpecific THEN "userSpecific"
  ELSE IF entity.characteristics.isVolatile THEN "volatile"
  ELSE "stable"

\* The grouping loop, for one of the four lists: root types are skipped.
RECURSIVE typesOfBucket(_, _, _)
typesOfBucket(ents, bucket, i) ==
  IF i > Len(ents) THEN <<>>
  ELSE (IF ~ents[i].characteristics.isRootType /\ bucketOf(ents[i]) = bucket
        THEN <<ents[i].name>>
        ELSE <<>>)
         \o typesOfBucket(ents, bucket, i + 1)

\* The four rule objects; a property the code does not write is no field of
\* the record.
sensitiveRule(types) == [types |-> types, scope |-> "private", maxAge |-> 60]

userSpecificRule(types) ==
  [types |-> types, scope |-> "private", maxAge |-> 300, staleWhileRevalidate |-> 60]

volatileRule(types) == [types |-> types, maxAge |-> 60, staleWhileRevalidate |-> 30]

stableRule(types) ==
  [types |-> types, maxAge |-> 900, staleWhileRevalidate |-> 300,
   staleIfError |-> 3600]

\* rulesOf pushing a rule for every list, empty or not.
rulesOfEveryBucket(ents) ==
  <<sensitiveRule(typesOfBucket(ents, "sensitive", 1)),
    userSpecificRule(typesOfBucket(ents, "userSpecific", 1)),
    volatileRule(typesOfBucket(ents, "volatile", 1)),
    stableRule(typesOfBucket(ents, "stable", 1))>>

\* The four `if (list.length > 0) rules.push(...)` statements.
rulesOf(ents) ==
  LET sensitiveTypes == typesOfBucket(ents, "sensitive", 1)
      userSpecificTypes == typesOfBucket(ents, "userSpecific", 1)
      volatileTypes == typesOfBucket(ents, "volatile", 1)
      stableTypes == typesOfBucket(ents, "stable", 1)
  IN  (IF Len(sensitiveTypes) > 0 THEN <<sensitiveRule(sensitiveTypes)>> ELSE <<>>)
        \o (IF Len(userSpecificTypes) > 0
            THEN <<userSpecificRule(userSpecificTypes)>> ELSE <<>>)
        \o (IF Len(volatileTypes) > 0 THEN <<volatileRule(volatileTypes)>> ELSE <<>>)
        \o (IF Len(stableTypes) > 0 THEN <<stableRule(stableTypes)>> ELSE <<>>)

\* invalidations[key] = value on an object kept as the list of its
\* properties in insertion order: an existing key keeps its place.
setProperty(object, key, value) ==
  IF \E i \in 1..Len(object) : object[i].key = key
  THEN [i \in 1..Len(object) |->
          IF object[i].key = key THEN [key |-> key, value |-> value] ELSE object[i]]
  ELSE Append(object, [key |-> key, value |-> value])

\* mutation.affectedTypes.map((type) => `${type}:*`)
patternsOf(affectedTypes) ==
  [i \in 1..Len(affectedTypes) |-> affectedTypes[i] \o ":*"]

\* invalidationsOf without the test of affectedTypes.length.
RECURSIVE invalidationsUnguardedFrom(_, _, _)
invalidationsUnguardedFrom(muts, i, invalidations) ==
  IF i > Len(muts) THEN invalidations
  ELSE invalidationsUnguardedFrom(muts, i + 1,
         setProperty(invalidations, muts[i].name, patternsOf(muts[i].affectedTypes)))

invalidationsUnguarded(muts) == invalidationsUnguardedFrom(muts, 1, <<>>)

RECURSIVE invalidationsFrom(_, _, _)
invalidationsFrom(muts, i, invalidations) ==
  IF i > Len(muts) THEN invalidations
  ELSE invalidationsFrom(muts, i + 1,
         IF Len(muts[i].affectedTypes) > 0
         THEN setProperty(invalidations, muts[i].name,
                          patternsOf(muts[i].affectedTypes))
         ELSE invalidations)

invalidationsOf(muts) == invalidationsFrom(muts, 1, <<>>)

generateBasicConfig(analyzed) ==
  [version |-> "1.0",
   name |-> "orion",
   defaults |-> [maxAge |-> 300, staleWhileRevalidate |-> 60, staleIfError |-> 0],
   rules |-> rulesOf(analyzed.entities),
   invalidations |-> invalidationsOf(analyzed.mutations)]

----------------------------------------------------------------------------
\* JavaScript values as JSON.parse yields them, and the completion of a
\* call: a returned value or a thrown error.

Undefined == [t |-> "undefined"]
JNull == [t |-> "null"]
JNum(n) == [t |-> "number", v |-> n]
\* A number that is no integer, as the fraction num / den.
JFrac(num, den) == [t |-> "fraction", num |-> num, den |-> den]
JBool(b) == [t |-> "boolean", v |-> b]
JStr(str) == [t |-> "string", v |-> str]
JArr(elements) == [t |-> "array", v |-> elements]
\* An object: the list of its properties [key, value] in insertion order.
JObj(props) == [t |-> "object", v |-> props]

Prop(key, value) == [key |-> key, value |-> value]

Normal(value) == [type |-> "normal", value |-> value]
Throw(message) == [type |-> "throw", message |-> message]

\* value.key: undefined unless value is an object with that property.
getProp(value, key) ==
  IF value.t = "object" /\ \E i \in 1..Len(value.v) : value.v[i].key = key
  THEN value.v[CHOOSE i \in 1..Len(value.v) : value.v[i].key = key].value
  ELSE Undefined

\* Reading a property of undefined or null throws a TypeError.
getPropThrows(value) == value.t \in {"undefined", "null"}

\* ToBoolean
truthy(value) ==
  CASE value.t \in {"undefined", "null"} -> FALSE
    [] value.t = "number" -> value.v # 0
    [] value.t = "string" -> value.v # ""
    [] value.t = "boolean" -> value.v
    [] OTHER -> TRUE

\* a || b and a ?? b
orElse(a, b) == IF truthy(a) THEN a ELSE b

nullish(a, b) == IF a.t \in {"undefined", "null"} THEN b ELSE a

\* The white space of \s and of String.prototype.trim met in the texts.
WhiteSpace == {" ", "\n", "\t", "\r"}

RECURSIVE skipWhiteSpace(_, _)
skipWhiteSpace(str, i) ==
  IF i <= Len(str) /\ SubSeq(str, i, i) \in WhiteSpace
  THEN skipWhiteSpace(str, i + 1)
  ELSE i

RECURSIVE lastNonWhiteSpace(_, _)
lastNonWhiteSpace(str, i) ==
  IF i >= 1 /\ SubSeq(str, i, i) \in WhiteSpace
  THEN lastNonWhiteSpace(str, i - 1)
  ELSE i

trim(str) == SubSeq(str, skipWhiteSpace(str, 1), lastNonWhiteSpace(str, Len(str)))

\* String.prototype.indexOf(p, from), positions counted from 1; 0 for -1.
indexOf(str, p, from) ==
  LET hits == {i \in from..(Len(str) - Len(p) + 1) : SubSeq(str, i, i + Len(p) - 1) = p}
  IN  IF hits = {} THEN 0 ELSE CHOOSE i \in hits : \A j \in hits : i <= j

----------------------------------------------------------------------------
\* ai-config-generator/response-parser.ts: parseAIResponse

\* The fence of a code block, three grave accents; the grave accent, which
\* no string of this language holds, is written ~ in every text.
Fence == "~~~"

\* JSON.parse on the texts the provider answers with here: a text is a JSON
\* document iff, white space around it aside, it is one of these, and then
\* this is its value.
JsonDocuments ==
  <<[text |-> "{\"rules\":[]}",
     value |-> JObj(<<Prop("rules", JArr(<<>>))>>)],
    [text |-> "{\"rules\":[{}]}",
     value |-> JObj(<<Prop("rules", JArr(<<JObj(<<>>)>>))>>)],
    [text |-> "{\"rules\":[{\"types\":[\"User\"],\"maxAge\":0,\"reasoning\":\"\"}]}",
     value |-> JObj(<<Prop("rules", JArr(<<
                 JObj(<<Prop("types", JArr(<<JStr("User")>>)),
                        Prop("maxAge", JNum(0)),
                        Prop("reasoning", JStr(""))>>)>>))>>)],
    [text |-> "{\"rules\":[{\"types\":[\"User\"],\"maxAge\":60,\"scope\":\"private\",\"reasoning\":\"hot\"}],\"invalidations\":{\"createUser\":[\"User:*\"]},\"confidence\":1}",
     value |-> JObj(<<Prop("rules", JArr(<<
                 JObj(<<Prop("types", JArr(<<JStr("User")>>)),
                        Prop("maxAge", JNum(60)),
                        Prop("scope", JStr("private")),
                        Prop("reasoning", JStr("hot"))>>)>>)),
               Prop("invalidations",
                    JObj(<<Prop("createUser", JArr(<<JStr("User:*")>>))>>)),
               Prop("confidence", JNum(1))>>)],
    [text |-> "{\"rules\":[{\"maxAge\":null,\"staleWhileRevalidate\":0,\"passthrough\":true}]}",
     value |-> JObj(<<Prop("rules", JArr(<<
                 JObj(<<Prop("maxAge", JNull),
                        Prop("staleWhileRevalidate", JNum(0)),
                        Prop("passthrough", JBool(TRUE))>>)>>))>>)],
    [text |-> "{\"rules\":[null]}",
     value |-> JObj(<<Prop("rules", JArr(<<JNull>>))>>)],
    [text |-> "{\"rules\":{}}",
     value |-> JObj(<<Prop("rules", JObj(<<>>))>>)],
    [text |-> "{}", value |-> JObj(<<>>)],
    [text |-> "[]", value |-> JArr(<<>>)],
    [text |-> "null", value |-> JNull],
    [text |-> "{\"rules\":[],\"explanation\":\"see ~~~x~~~ \"}",
     value |-> JObj(<<Prop("rules", JArr(<<>>)),
                      Prop("explanation", JStr("see ~~~x~~~ "))>>)]>>

jsonParse(text) ==
  LET docs == {d \in DOMAIN JsonDocuments : JsonDocuments[d].text = trim(text)}
  IN  IF docs = {}
      THEN Throw("Unexpected token in JSON")
      ELSE Normal(JsonDocuments[CHOOSE d \in docs : TRUE].value)

\* responseText.match(/FENCE(?:json)?\s*([\s\S]*?)FENCE/): the leftmost fence
\* that another fence follows, "json" and white space after it skipped, and
\* as group 1 the text up to the next fence.
matchCodeBlock(responseText) ==
  LET open == indexOf(responseText, Fence, 1)
      close == IF open = 0 THEN 0 ELSE indexOf(responseText, Fence, open + 3)
      afterJson == IF open + 6 <= Len(responseText)
                      /\ SubSeq(responseText, open + 3, open + 6) = "json"
                   THEN open + 7
                   ELSE open + 3
  IN  IF close = 0
      THEN [matched |-> FALSE, group1 |-> ""]
      ELSE [matched |-> TRUE,
            group1 |-> SubSeq(responseText, skipWhiteSpace(responseText, afterJson),
                              close - 1)]

\* The object made of one element of parsed.rules.
repairedRule(rule) ==
  [types |-> orElse(getProp(rule, "types"), JArr(<<>>)),
   maxAge |-> nullish(getProp(rule, "maxAge"), JNum(300)),
   staleWhileRevalidate |-> getProp(rule, "staleWhileRevalidate"),
   staleIfError |-> getProp(rule, "staleIfError"),
   scope |-> getProp(rule, "scope"),
   passthrough |-> getProp(rule, "passthrough"),
   reasoning |-> orElse(getProp(rule, "reasoning"), JStr("No reasoning provided"))]

\* repairedRule keeping what the rule holds.
unrepairedRule(rule) ==
  [types |-> getProp(rule, "types"),
   maxAge |-> getProp(rule, "maxAge"),
   staleWhileRevalidate |-> getProp(rule, "staleWhileRevalidate"),
   staleIfError |-> getProp(rule, "staleIfError"),
   scope |-> getProp(rule, "scope"),
   passthrough |-> getProp(rule, "passthrough"),
   reasoning |-> getProp(rule, "reasoning")]

\* The body of the try block.
parseJsonStr(jsonStr) ==
  LET parsed == jsonParse(jsonStr)
  IN  IF parsed.type = "throw" THEN parsed
      ELSE IF getPropThrows(parsed.value)
      THEN Throw("Cannot read properties of null (reading 'rules')")
      ELSE LET rules == getProp(parsed.value, "rules")
           IN  IF rules.t # "array"
               THEN Throw("Missing or invalid 'rules' array")
               ELSE IF \E i \in 1..Len(rules.v) : getPropThrows(rules.v[i])
               THEN Throw("Cannot read properties of null (reading 'types')")
               ELSE Normal(
                 [rules |-> [i \in 1..Len(rules.v) |-> repairedRule(rules.v[i])],
                  invalidations |->
                    orElse(getProp(parsed.value, "invalidations"), JObj(<<>>)),
                  explanation |->
                    orElse(getProp(parsed.value, "explanation"),
                           JStr("No explanation provided")),
                  confidence |->
                    IF getProp(parsed.value, "confidence").t \in {"number", "fraction"}
                    THEN getProp(parsed.value, "confidence")
                    ELSE JFrac(7, 10),
                  warnings |->
                    IF getProp(parsed.value, "warnings").t = "array"
                    THEN getProp(parsed.value, "warnings")
                    ELSE JArr(<<>>)])

parseAIResponse(responseText) ==
  LET codeBlockMatch == matchCodeBlock(responseText)
      jsonStr == IF codeBlockMatch.matched /\ codeBlockMatch.group1 # ""
                 THEN trim(codeBlockMatch.group1)
                 ELSE responseText
      body == parseJsonStr(jsonStr)
  IN  IF body.type = "throw"
      THEN Throw("Failed to parse AI response: " \o body.message)
      ELSE body

----------------------------------------------------------------------------
\* ai-config-generator/config-converter.ts: convertToOrionConfig

\* value?.key
optionalProp(value, key) ==
  IF getPropThrows(value) THEN Undefined ELSE getProp(value, key)

\* value > 0 for the values met here: numbers, null and undefined.
greaterThanZero(value) ==
  \/ value.t = "number" /\ value.v > 0
  \/ value.t = "fraction"

defaultMaxAgeOf(prefs) ==
  LET defaultTtl == optionalProp(prefs, "defaultTtl")
  IN  IF defaultTtl.t = "string" /\ defaultTtl.v = "short" THEN 60
      ELSE IF defaultTtl.t = "string" /\ defaultTtl.v = "long" THEN 900
      ELSE 300

\* The orionRule object: a property the code does not assign is no field.
orionRuleOf(rule) ==
  LET assigned ==
        {"types"}
          \cup (IF rule.maxAge.t # "undefined" THEN {"maxAge"} ELSE {})
          \cup (IF rule.staleWhileRevalidate.t # "undefined"
                   /\ greaterThanZero(rule.staleWhileRevalidate)
                THEN {"staleWhileRevalidate"} ELSE {})
          \cup (IF rule.staleIfError.t # "undefined"
                   /\ greaterThanZero(rule.staleIfError)
                THEN {"staleIfError"} ELSE {})
          \cup (IF truthy(rule.scope) THEN {"scope"} ELSE {})
          \cup (IF truthy(rule.passthrough) THEN {"passthrough"} ELSE {})
  IN  [f \in assigned |->
         IF f = "passthrough" THEN JBool(TRUE) ELSE rule[f]]

convertToOrionConfig(aiResponse, prefs) ==
  [version |-> "1.0",
   name |-> "orion",
   defaults |-> [maxAge |-> defaultMaxAgeOf(prefs),
                 staleWhileRevalidate |-> 0,
                 staleIfError |-> 0],
   rules |-> [i \in 1..Len(aiResponse.rules) |-> orionRuleOf(aiResponse.rules[i])],
   invalidations |-> aiResponse.invalidations]

----------------------------------------------------------------------------
\* ai-config-generator/providers.ts

getSupportedProviders == <<"anthropic", "openai", "gemini", "grok">>

\* PROVIDER_API_CONFIGS[provider].errorPrefix
errorPrefix ==
  [anthropic |-> "Anthropic", openai |-> "OpenAI", gemini |-> "Gemini",
   grok |-> "Grok"]

Key(k) == [kind |-> "key", key |-> k]
Index(i) == [kind |-> "index", index |-> i]

\* PROVIDER_API_CONFIGS[provider].extractResponse as the path it reads.
extractResponsePath ==
  [anthropic |-> <<Key("content"), Index(0), Key("text")>>,
   openai |-> <<Key("choices"), Index(0), Key("message"), Key("content")>>,
   gemini |-> <<Key("candidates"), Index(0), Key("content"), Key("parts"),
                Index(0), Key("text")>>,
   grok |-> <<Key("choices"), Index(0), Key("message"), Key("content")>>]

\* value[i]
getIndex(value, i) ==
  IF value.t = "array" /\ i + 1 <= Len(value.v) THEN value.v[i + 1] ELSE Undefined

RECURSIVE readPath(_, _, _)
readPath(value, path, i) ==
  IF i > Len(path) THEN Normal(value)
  ELSE IF getPropThrows(value)
  THEN Throw("Cannot read properties of " \o value.t)
  ELSE readPath(IF path[i].kind = "key"
                THEN getProp(value, path[i].key)
                ELSE getIndex(value, path[i].index),
                path, i + 1)

extractResponse(provider, result) == readPath(result, extractResponsePath[provider], 1)

\* Number.prototype.toString for a natural number.
RECURSIVE numberToString(_)
numberToString(n) ==
  LET digit == SubSeq("0123456789", (n % 10) + 1, (n % 10) + 1)
  IN  IF n < 10 THEN digit ELSE numberToString(n \div 10) \o digit

\* The error thrown for a response that is not ok, its text read.
apiError(provider, status, error) ==
  Throw(errorPrefix[provider] \o " API error: " \o numberToString(status)
          \o " - " \o error)

----------------------------------------------------------------------------
\* introspection.ts: credentials.  A file is [exists, mode, content]; its
\* content is the JSON document it holds, as the value JSON.parse gives and
\* JSON.stringify was given, or Garbage for a text that is no JSON.

Garbage == [t |-> "garbage"]

NoFile == [exists |-> FALSE, mode |-> "", content |-> Garbage]

File(mode, content) == [exists |-> TRUE, mode |-> mode, content |-> content]

\* new Date().toISOString() during the given call.
now(call) == "T" \o numberToString(call)

\* What getSavedCredentials resolves to: null without a file, on a failed
\* read and on a text that is no JSON, else the parsed document.
getSavedCredentials(file, readFails) ==
  IF ~file.exists \/ readFails \/ file.content.t = "garbage"
  THEN JNull
  ELSE file.content

\* credentials?.ai?.[provider] || null
getAIKeyFromCredentials(saved, provider) ==
  orElse(optionalProp(optionalProp(saved, "ai"), provider), JNull)

\* Lines 360-369 of saveAIKeyToCredentials: the object to write.  Creating
\* a property on a primitive value throws a TypeError (module code is
\* strict).
credentialsToSave(saved, provider, apiKey, savedAt) ==
  LET loaded == orElse(saved, JObj(<<Prop("savedAt", JStr(savedAt))>>))
  IN  IF loaded.t # "object"
      THEN Throw("Cannot create property 'ai' on " \o loaded.t)
      ELSE LET withAi == IF ~truthy(getProp(loaded, "ai"))
                         THEN setProperty(loaded.v, "ai", JObj(<<>>))
                         ELSE loaded.v
               ai == getProp(JObj(withAi), "ai")
           IN  IF ai.t # "object"
               THEN Throw("Cannot create property '" \o provider \o "' on " \o ai.t)
               ELSE Normal(JObj(
                      setProperty(
                        setProperty(withAi, "ai",
                                    JObj(setProperty(ai.v, provider, JStr(apiKey)))),
                        "savedAt", JStr(savedAt))))

\* String(value) inside a template literal.
templateString(value) ==
  CASE value.t = "string" -> value.v
    [] value.t = "number" -> numberToString(value.v)
    [] OTHER -> value.t

\* The try block of getGraphQLEndpointFromTerraform once the file is read.
endpointFromState(content) ==
  IF content.t = "garbage" THEN Throw("Unexpected token in JSON")
  ELSE IF getPropThrows(content)
  THEN Throw("Cannot read properties of null (reading 'outputs')")
  ELSE LET value ==
             optionalProp(optionalProp(getProp(content, "outputs"), "compute_service"),
                          "value")
           computeDomain == optionalProp(value, "backend_domain")
           protocol == optionalProp(value, "backend_protocol")
           graphqlEndpoint ==
             JStr(templateString(protocol) \o "://" \o templateString(computeDomain)
                    \o "/graphql")
       IN  Normal(orElse(graphqlEndpoint, JNull))

\* getGraphQLEndpointFromTerraform: every error is caught and gives null.
getGraphQLEndpointFromTerraform(file, readFails) ==
  IF ~file.exists THEN JNull
  ELSE IF readFails THEN JNull
  ELSE LET endpoint == endpointFromState(file.content)
       IN  IF endpoint.type = "throw" THEN JNull ELSE endpoint.value

----------------------------------------------------------------------------
\* The analyzed inputs: introspection schemas whose type names are pairwise
\* distinct (as in every GraphQL schema), in five families.

SeqsUpTo(S, n) == UNION {[1..k -> S] : k \in 0..n}

StringRef == Named("SCALAR", "String")
IdRef == Wrap("NON_NULL", Named("SCALAR", "ID"))

\* (a) Type references: every chain of at most MaxDepth wrappers, well formed
\* or not, over a few terminals, and the null reference.
WrapperNodes ==
  {[kind |-> k, name |-> NullName] : k \in {"NON_NULL", "LIST", "OBJECT"}}

TerminalNodes ==
  {[kind |-> "SCALAR", name |-> "String"],
   [kind |-> "OBJECT", name |-> "Post"],
   [kind |-> "OBJECT", name |-> NullName],
   [kind |-> "SCALAR", name |-> ""],
   [kind |-> "LIST", name |-> NullName]}

TypeRefs ==
  {w \o <<t>> : w \in SeqsUpTo(WrapperNodes, MaxDepth), t \in TerminalNodes}

RefSchemas ==
  {IntrospectionSchema(Root("Query"), NullRoot, NullRoot,
     <<TypeWithFields("OBJECT", "Query",
         <<Field("find", r, <<InputValue("key", r)>>)>>),
       TypeWithFields("OBJECT", "User", <<Field("value", r, <<>>)>>),
       TypeWithFields("OBJECT", "Post", <<Field("id", IdRef, <<>>)>>)>>)
     : r \in TypeRefs \cup {NullRef}}

\* (b) Reference graphs over the two names User and Post: each type is an
\* object type with at most MaxFields fields, or a type that is no entity.
GraphFieldNames == <<"owner", "items", "parent", "extra", "more", "last">>

GraphRefs ==
  {Named("OBJECT", "User"),
   Named("OBJECT", "Post"),
   Wrap("LIST", Named("OBJECT", "Post")),
   StringRef}

GraphFieldSeqs ==
  {[i \in DOMAIN rs |-> Field(GraphFieldNames[i], rs[i], <<>>)]
     : rs \in SeqsUpTo(GraphRefs, MaxFields)}

GraphTypes(n) ==
  {TypeWithFields("OBJECT", n, fs) : fs \in GraphFieldSeqs}
    \cup {TypeNoFields("OBJECT", n),
          TypeNoFields("ENUM", n),
          TypeWithFields("INTERFACE", n, <<Field("owner", Named("OBJECT", "User"), <<>>)>>)}

GraphSchemas ==
  {IntrospectionSchema(NullRoot, NullRoot, NullRoot,
     <<t1, t2, TypeNoFields("SCALAR", "String")>>)
     : t1 \in GraphTypes("User"), t2 \in GraphTypes("Post")}

\* (c) Field names and type names for the characteristics: one type whose
\* fields are at most MaxTraitFields names of TraitFieldNames, in that order.
TraitFieldNames ==
  <<"id", "_id", "ID", "Id", "uid", "email", "updatedAt", "name", "State",
    "title", "apiKeyHash">>

RECURSIVE SubSeqsFrom(_, _, _)
SubSeqsFrom(names, i, k) ==
  IF k = 0 \/ i > Len(names) THEN {<<>>}
  ELSE SubSeqsFrom(names, i + 1, k)
         \cup {<<names[i]>> \o rest : rest \in SubSeqsFrom(names, i + 1, k - 1)}

TraitFieldSeqs ==
  {[i \in DOMAIN ns |-> Field(ns[i], StringRef, <<>>)]
     : ns \in SubSeqsFrom(TraitFieldNames, 1, MaxTraitFields)}

UserProfileType ==
  TypeWithFields("OBJECT", "UserProfile",
    <<Field("id", IdRef, <<>>),
      Field("email", StringRef, <<>>),
      Field("updatedAt", StringRef, <<>>)>>)

TraitTypes ==
  {UserProfileType}
    \cup {TypeWithFields(k, n, fs)
            : k \in {"OBJECT", "INPUT_OBJECT"},
              n \in {"UserProfile", "TagEdge", "Subscription", "__Meta", "Int"},
              fs \in TraitFieldSeqs}
    \cup {TypeNoFields("OBJECT", "UserProfile")}

TraitSchemas ==
  {IntrospectionSchema(NullRoot, NullRoot, NullRoot,
     <<TypeNoFields("SCALAR", "String"), t>>) : t \in TraitTypes}

\* (d) Root types: one root field of varying name, return type and
\* arguments, followed by a fixed second field; the root designated as query,
\* mutation or subscription root, under several names, or designated by a
\* name the type list does not hold.
OperationNames ==
  {MUTATION_PATTERNS[p] \o "Widget" : p \in DOMAIN MUTATION_PATTERNS}
    \cup {"toggleFeatureFlag", "updateStatus", "addString", "create",
          "DELETEWidget", "removewidget", "editGhost", "widgetCreate",
          "createdWidget"}

ReturnRefs ==
  {Named("OBJECT", "Widget"),
   Wrap("NON_NULL", Wrap("LIST", Wrap("NON_NULL", Named("OBJECT", "Widget")))),
   Named("ENUM", "Status"),
   Named("SCALAR", "Boolean"),
   Named("OBJECT", "Ghost"),
   StringRef}

ArgumentList ==
  <<InputValue("id", IdRef),
    InputValue("title", StringRef),
    InputValue("tags", Wrap("LIST", Wrap("NON_NULL", StringRef))),
    InputValue("note", Wrap("NON_NULL", StringRef))>>

ArgumentSeqs == {SubSeq(ArgumentList, 1, k) : k \in 0..MaxArgs}

RootFieldSeqs ==
  {<<Field(n, r, as),
     Field("createWidget", Named("OBJECT", "Widget"), <<InputValue("id", IdRef)>>)>>
     : n \in OperationNames, r \in ReturnRefs, as \in ArgumentSeqs}

\* <<name of the root type, queryType, mutationType, subscriptionType>>
RootLayouts ==
  {<<"Mutation", NullRoot, Root("Mutation"), NullRoot>>,
   <<"Query", Root("Query"), NullRoot, NullRoot>>,
   <<"Subscription", NullRoot, NullRoot, Root("Subscription")>>,
   <<"RootOps", NullRoot, Root("RootOps"), NullRoot>>,
   <<"Mutation", NullRoot, Root("Missing"), NullRoot>>,
   <<"Query", Root("Missing"), NullRoot, NullRoot>>,
   <<"Mutation", NullRoot, Root("Status"), NullRoot>>}

OperationSchemas ==
  {IntrospectionSchema(l[2], l[3], l[4],
     <<TypeWithFields("OBJECT", l[1], fs),
       TypeWithFields("OBJECT", "Widget", <<Field("id", IdRef, <<>>)>>),
       TypeNoFields("ENUM", "Status"),
       TypeNoFields("OBJECT", "Ghost"),
       TypeNoFields("SCALAR", "String")>>)
     : l \in RootLayouts, fs \in RootFieldSeqs}

\* (e) The blog schema: Query, Mutation, User and Post.
BlogSchema ==
  IntrospectionSchema(Root("Query"), Root("Mutation"), NullRoot,
    <<TypeWithFields("OBJECT", "Query",
        <<Field("users", Wrap("LIST", Named("OBJECT", "User")), <<>>)>>),
      TypeWithFields("OBJECT", "Mutation",
        <<Field("createPost", Named("OBJECT", "Post"),
                <<InputValue("title", Wrap("NON_NULL", StringRef))>>)>>),
      TypeWithFields("OBJECT", "User",
        <<Field("id", IdRef, <<>>),
          Field("email", StringRef, <<>>),
          Field("posts", Wrap("LIST", Named("OBJECT", "Post")), <<>>)>>),
      TypeWithFields("OBJECT", "Post",
        <<Field("id", IdRef, <<>>),
          Field("title", Wrap("NON_NULL", StringRef), <<>>),
          Field("author", Named("OBJECT", "User"), <<>>)>>),
      TypeNoFields("SCALAR", "ID"),
      TypeNoFields("SCALAR", "String")>>)

\* (f) Null type references in a root type that is no entity: in the return
\* type of a query field, and in an argument of a mutation field.
NullRefSchemas ==
  {IntrospectionSchema(Root("Node"), NullRoot, NullRoot,
     <<TypeWithFields("INTERFACE", "Node", <<Field("node", NullRef, <<>>)>>),
       TypeWithFields("OBJECT", "Widget", <<Field("id", IdRef, <<>>)>>)>>),
   IntrospectionSchema(NullRoot, Root("__Ops"), NullRoot,
     <<TypeWithFields("OBJECT", "__Ops",
         <<Field("addWidget", Named("OBJECT", "Widget"),
                 <<InputValue("id", IdRef), InputValue("input", NullRef)>>)>>),
       TypeWithFields("OBJECT", "Widget", <<Field("id", IdRef, <<>>)>>)>>)}

\* (g) Cached types: at most MaxCacheTypes object types with an id and one
\* further field whose name decides the characteristics, and a Mutation root.
CacheTypeNames == <<"Account", "Session", "Article", "Comment", "Vote">>

CacheFieldNames ==
  {"password", "ownerId", "status", "title", "authorStatus", "userEmailState"}

CacheMutationType ==
  TypeWithFields("OBJECT", "Mutation",
    <<Field("createAccount", Named("OBJECT", "Account"), <<>>),
      Field("ping", Named("SCALAR", "Boolean"), <<>>),
      Field("removeArticle", Named("SCALAR", "Boolean"), <<InputValue("id", IdRef)>>)>>)

CacheSchemas ==
  {IntrospectionSchema(NullRoot, Root("Mutation"), NullRoot,
     <<CacheMutationType>>
       \o [i \in DOMAIN ns |->
            TypeWithFields("OBJECT", CacheTypeNames[i],
              <<Field("id", IdRef, <<>>), Field(ns[i], StringRef, <<>>)>>)])
     : ns \in SeqsUpTo(CacheFieldNames, MaxCacheTypes)}

\* (h) Described types: a root type and an entity with a description, which
\* may be the empty string.
DescribedSchemas ==
  {IntrospectionSchema(Root("Query"), NullRoot, NullRoot,
     <<Described(TypeWithFields("OBJECT", "Query",
                   <<Field("account", Named("OBJECT", "Account"), <<>>)>>),
                 "The entry points"),
       Described(TypeWithFields("OBJECT", "Account",
                   <<Field("id", IdRef, <<>>)>>),
                 d),
       TypeNoFields("SCALAR", "ID")>>)
     : d \in {"", "A customer account"}}

Schemas ==
  RefSchemas \cup GraphSchemas \cup TraitSchemas \cup OperationSchemas
    \cup NullRefSchemas \cup {BlogSchema} \cup CacheSchemas
    \cup DescribedSchemas

----------------------------------------------------------------------------
\* analyzer/index.ts: analyzeSchema, one action per statement.  pc names the
\* statement to run next, "done" the return and "failed" a thrown TypeError.

\* for (const type of schema.types) typeMap.set(type.name, type)
RECURSIVE buildTypeMapFrom(_, _, _)
buildTypeMapFrom(types, i, tmap) ==
  IF i > Len(types) THEN tmap
  ELSE buildTypeMapFrom(
         types, i + 1,
         [n \in DOMAIN tmap \cup {types[i].name} |->
            IF n = types[i].name THEN types[i] ELSE tmap[n]])

buildTypeMap(types) == buildTypeMapFrom(types, 1, <<>>)

\* unwrapType was not called by itself.
ResolverIdle ==
  /\ reference = NullRef
  /\ resolutions = <<>>

\* No generation was requested.
GeneratorIdle ==
  /\ gpc = "idle"
  /\ aiConfig = [provider |-> "anthropic", apiKey |-> ""]
  /\ preferences = Undefined
  /\ server = [kind |-> "networkError", message |-> "fetch failed"]
  /\ requests = <<>>
  /\ generation = [status |-> "pending"]

\* fetchSchema was not called.
FetchIdle ==
  /\ fpc = "idle"
  /\ timeout = 1
  /\ clock = 0
  /\ timer = FALSE
  /\ aborted = FALSE
  /\ delivered = "nothing"
  /\ origin = [kind |-> "networkError", message |-> "fetch failed"]
  /\ introspection = [status |-> "pending"]

\* No credential or endpoint operation was called.
CollaboratorsIdle ==
  /\ cop = [name |-> "none"]
  /\ cpc = "idle"
  /\ credentialsFile = NoFile
  /\ tfstateFile = NoFile
  /\ credentials = Undefined
  /\ endpointServer = [kind |-> "networkError", message |-> "fetch failed"]
  /\ outcome = [status |-> "pending"]
  /\ calls = 0

Init ==
  /\ schema \in Schemas
  /\ pc = "buildTypeMap"
  /\ typeMap = <<>>
  /\ entities = <<>>
  /\ queries = <<>>
  /\ mutations = <<>>
  /\ relationships = <<>>
  /\ config = <<>>
  /\ analyses = <<>>
  /\ summaries = <<>>
  /\ GeneratorIdle
  /\ CollaboratorsIdle
  /\ FetchIdle
  /\ ResolverIdle

BuildTypeMap ==
  /\ pc = "buildTypeMap"
  /\ typeMap' = buildTypeMap(schema.types)
  /\ pc' = "extractEntities"
  /\ UNCHANGED <<schema, entities, queries, mutations, relationships, config>>
  /\ UNCHANGED callerVars
  /\ UNCHANGED outsideAnalyzer

\* extractEntities with entity objects kept by name from one call to the next:
\* an entity starts with the referencedBy list of the previous analysis.
ExtractEntitiesKept ==
  /\ pc = "extractEntities"
  /\ IF extractEntitiesThrows(schema.types)
     THEN pc' = "failed" /\ UNCHANGED entities
     ELSE /\ entities' =
               LET fresh == extractEntities(schema.types, typeMap)
               IN  [i \in DOMAIN fresh |->
                      IF entityMapGet(entities, fresh[i].name) # 0
                      THEN [fresh[i] EXCEPT !.referencedBy =
                              entities[entityMapGet(entities, fresh[i].name)]
                                .referencedBy]
                      ELSE fresh[i]]
          /\ pc' = "extractQueries"
  /\ UNCHANGED <<schema, typeMap, queries, mutations, relationships, config>>
  /\ UNCHANGED callerVars
  /\ UNCHANGED outsideAnalyzer

ExtractEntities ==
  /\ pc = "extractEntities"
  /\ IF extractEntitiesThrows(schema.types)
     THEN pc' = "failed" /\ UNCHANGED entities
     ELSE /\ entities' = extractEntities(schema.types, typeMap)
          /\ pc' = "extractQueries"
  /\ UNCHANGED <<schema, typeMap, queries, mutations, relationships, config>>
  /\ UNCHANGED callerVars
  /\ UNCHANGED outsideAnalyzer

ExtractQueries ==
  /\ pc = "extractQueries"
  /\ IF schema.queryType.isNull
     THEN queries' = <<>> /\ pc' = "extractMutations"
     ELSE LET rootType == mapGet(typeMap, schema.queryType.name)
          IN  IF extractOperationsThrows(rootType)
              THEN pc' = "failed" /\ UNCHANGED queries
              ELSE /\ queries' = extractOperations(rootType, typeMap, "query")
                   /\ pc' = "extractMutations"
  /\ UNCHANGED <<schema, typeMap, entities, mutations, relationships, config>>
  /\ UNCHANGED callerVars
  /\ UNCHANGED outsideAnalyzer

ExtractMutations ==
  /\ pc = "extractMutations"
  /\ IF schema.mutationType.isNull
     THEN mutations' = <<>> /\ pc' = "buildRelationships"
     ELSE LET rootType == mapGet(typeMap, schema.mutationType.name)
          IN  IF extractOperationsThrows(rootType)
              THEN pc' = "failed" /\ UNCHANGED mutations
              ELSE /\ mutations' = extractOperations(rootType, typeMap, "mutation")
                   /\ pc' = "buildRelationships"
  /\ UNCHANGED <<schema, typeMap, entities, queries, relationships, config>>
  /\ UNCHANGED callerVars
  /\ UNCHANGED outsideAnalyzer

BuildRelationships ==
  /\ pc = "buildRelationships"
  /\ IF buildRelationshipsThrows(entities, typeMap)
     THEN pc' = "failed" /\ UNCHANGED relationships
     ELSE /\ relationships' = buildRelationships(entities, typeMap)
          /\ pc' = "enrichEntities"
  /\ UNCHANGED <<schema, typeMap, entities, queries, mutations, config>>
  /\ UNCHANGED callerVars
  /\ UNCHANGED outsideAnalyzer

EnrichEntities ==
  /\ pc = "enrichEntities"
  /\ entities' = enrichEntitiesWithRelationships(entities, relationships)
  /\ pc' = "done"
  /\ UNCHANGED <<schema, typeMap, queries, mutations, relationships, config>>
  /\ UNCHANGED callerVars
  /\ UNCHANGED outsideAnalyzer

\* generateBasicConfig applied to the value analyzeSchema returned.
GenerateBasicConfig ==
  /\ pc = "done"
  /\ config' = generateBasicConfig([entities |-> entities, queries |-> queries,
                                     mutations |-> mutations,
                                     relationships |-> relationships])
  /\ pc' = "generated"
  /\ UNCHANGED <<schema, typeMap, entities, queries, mutations, relationships>>
  /\ UNCHANGED callerVars
  /\ UNCHANGED outsideAnalyzer

Next ==
  \/ BuildTypeMap
  \/ ExtractEntities
  \/ ExtractQueries
  \/ ExtractMutations
  \/ BuildRelationships
  \/ EnrichEntities
  \/ GenerateBasicConfig

Spec == Init /\ [][Next]_vars


----------------------------------------------------------------------------
\* analyzeSchema called again and again by one caller.  JavaScript runs each
\* call to completion, so the calls of a program form a sequence.  The
\* variables of a finished call keep their last values until the statements
\* of the next call assign them: a statement that read one of them before
\* assigning it would see the previous analysis.

\* analyzeSchema as a function of the schema: the value returned or the
\* TypeError thrown.
analyzeSchema(s) ==
  LET tmap == buildTypeMap(s.types)
      queryRoot == mapGet(tmap, s.queryType.name)
      mutationRoot == mapGet(tmap, s.mutationType.name)
  IN  IF extractEntitiesThrows(s.types) THEN Throw("TypeError")
      ELSE IF ~s.queryType.isNull /\ extractOperationsThrows(queryRoot)
      THEN Throw("TypeError")
      ELSE IF ~s.mutationType.isNull /\ extractOperationsThrows(mutationRoot)
      THEN Throw("TypeError")
      ELSE LET ents == extractEntities(s.types, tmap)
               rels == buildRelationships(ents, tmap)
           IN  IF buildRelationshipsThrows(ents, tmap) THEN Throw("TypeError")
               ELSE Normal(
                      [entities |-> enrichEntitiesWithRelationships(ents, rels),
                       queries |-> IF s.queryType.isNull THEN <<>>
                                   ELSE extractOperations(queryRoot, tmap, "query"),
                       mutations |-> IF s.mutationType.isNull THEN <<>>
                                     ELSE extractOperations(mutationRoot, tmap,
                                                            "mutation"),
                       relationships |-> rels,
                       typeMap |-> tmap])

\* The schemas analysed repeatedly: the blog schema, the schemas with a null
\* reference and the reference graphs of two object types with at most one
\* field each.
RepeatSchemas ==
  {BlogSchema} \cup NullRefSchemas
    \cup {s \in GraphSchemas :
            \A i \in 1..2 :
              /\ s.types[i].kind = "OBJECT"
              /\ s.types[i].hasFields
              /\ Len(s.types[i].fields) <= 1}

\* The value the running call of analyzeSchema returns.
ReturnedValue ==
  [entities |-> entities, queries |-> queries, mutations |-> mutations,
   relationships |-> relationships, typeMap |-> typeMap]

InitRepeated ==
  /\ schema \in RepeatSchemas
  /\ pc = "buildTypeMap"
  /\ typeMap = <<>>
  /\ entities = <<>>
  /\ queries = <<>>
  /\ mutations = <<>>
  /\ relationships = <<>>
  /\ config = <<>>
  /\ analyses = <<>>
  /\ summaries = <<>>
  /\ GeneratorIdle
  /\ CollaboratorsIdle
  /\ FetchIdle
  /\ ResolverIdle

\* The caller calls analyzeSchema once more, with the same or another schema.
AnalyzeAgain ==
  /\ pc \in {"done", "failed"}
  /\ Len(analyses) + 1 < MaxAnalyses
  /\ analyses' = Append(analyses,
                        [schema |-> schema,
                         result |-> IF pc = "done" THEN Normal(ReturnedValue)
                                    ELSE Throw("TypeError")])
  /\ schema' \in RepeatSchemas
  /\ pc' = "buildTypeMap"
  /\ UNCHANGED <<typeMap, entities, queries, mutations, relationships, config,
                 summaries>>
  /\ UNCHANGED outsideAnalyzer

NextRepeated ==
  \/ BuildTypeMap
  \/ ExtractEntities
  \/ ExtractQueries
  \/ ExtractMutations
  \/ BuildRelationships
  \/ EnrichEntities
  \/ AnalyzeAgain

SpecRepeated == InitRepeated /\ [][NextRepeated]_vars


----------------------------------------------------------------------------
\* The caller renders the summary of the analysis it holds, before or after
\* generateBasicConfig, up to MaxRenderings times.

\* generateSchemaSummary with a line that counts the renderings.
GenerateSchemaSummaryCounting ==
  /\ pc \in {"done", "generated"}
  /\ Len(summaries) < MaxRenderings
  /\ summaries' = Append(summaries,
                         generateSchemaSummary(ReturnedValue) \o "\nRendering "
                           \o numberToString(Len(summaries) + 1))
  /\ UNCHANGED <<schema, pc, typeMap, entities, queries, mutations, relationships,
                 config, analyses>>
  /\ UNCHANGED outsideAnalyzer

GenerateSchemaSummary ==
  /\ pc \in {"done", "generated"}
  /\ Len(summaries) < MaxRenderings
  /\ summaries' = Append(summaries, generateSchemaSummary(ReturnedValue))
  /\ UNCHANGED <<schema, pc, typeMap, entities, queries, mutations, relationships,
                 config, analyses>>
  /\ UNCHANGED outsideAnalyzer

NextSummary ==
  \/ BuildTypeMap
  \/ ExtractEntities
  \/ ExtractQueries
  \/ ExtractMutations
  \/ BuildRelationships
  \/ EnrichEntities
  \/ GenerateBasicConfig
  \/ GenerateSchemaSummary

\* The schemas rendered: all but the family built for the cache rules of
\* generateBasicConfig, whose entities (an id and one trait field each) the
\* trait family has too.
SummarySchemas == Schemas \ CacheSchemas

InitSummary == Init /\ schema \in SummarySchemas

SpecSummary == InitSummary /\ [][NextSummary]_vars



----------------------------------------------------------------------------
\* src/analyzer.ts: the analyzer in one file.  Its constants and its helper
\* functions (lines 27-104 and 159-436: extractEntities, extractFieldInfo,
\* unwrapType, findReferencedTypes, analyzeCharacteristics,
\* extractOperations, inferAffectedTypes, extractTypeFromMutation,
\* buildRelationships, enrichEntitiesWithRelationships) are, token for
\* token, those of the files under analyzer/, so that the operators above
\* are their translation as well; its two exported functions are translated
\* here.

\* analyzeSchema of src/analyzer.ts with the last statement before the return
\* left out.
singleFileWithoutEnrichment(s) ==
  LET tmap == buildTypeMap(s.types)
      ents == extractEntities(s.types, tmap)
      qs == IF ~s.queryType.isNull
            THEN extractOperations(mapGet(tmap, s.queryType.name), tmap, "query")
            ELSE <<>>
      ms == IF ~s.mutationType.isNull
            THEN extractOperations(mapGet(tmap, s.mutationType.name), tmap,
                                   "mutation")
            ELSE <<>>
      rels == buildRelationships(ents, tmap)
  IN  IF extractEntitiesThrows(s.types) THEN Throw("TypeError")
      ELSE IF /\ ~s.queryType.isNull
              /\ extractOperationsThrows(mapGet(tmap, s.queryType.name))
      THEN Throw("TypeError")
      ELSE IF /\ ~s.mutationType.isNull
              /\ extractOperationsThrows(mapGet(tmap, s.mutationType.name))
      THEN Throw("TypeError")
      ELSE IF buildRelationshipsThrows(ents, tmap) THEN Throw("TypeError")
      ELSE Normal([entities |-> ents, queries |-> qs, mutations |-> ms,
                   relationships |-> rels, typeMap |-> tmap])

\* analyzeSchema of src/analyzer.ts: the value returned or the TypeError
\* thrown.
singleFileAnalyzeSchema(s) ==
  LET tmap == buildTypeMap(s.types)
      ents == extractEntities(s.types, tmap)
      qs == IF ~s.queryType.isNull
            THEN extractOperations(mapGet(tmap, s.queryType.name), tmap, "query")
            ELSE <<>>
      ms == IF ~s.mutationType.isNull
            THEN extractOperations(mapGet(tmap, s.mutationType.name), tmap,
                                   "mutation")
            ELSE <<>>
      rels == buildRelationships(ents, tmap)
  IN  IF extractEntitiesThrows(s.types) THEN Throw("TypeError")
      ELSE IF /\ ~s.queryType.isNull
              /\ extractOperationsThrows(mapGet(tmap, s.queryType.name))
      THEN Throw("TypeError")
      ELSE IF /\ ~s.mutationType.isNull
              /\ extractOperationsThrows(mapGet(tmap, s.mutationType.name))
      THEN Throw("TypeError")
      ELSE IF buildRelationshipsThrows(ents, tmap) THEN Throw("TypeError")
      ELSE Normal([entities |-> enrichEntitiesWithRelationships(ents, rels),
                   queries |-> qs, mutations |-> ms, relationships |-> rels,
                   typeMap |-> tmap])

\* generateSchemaSummary of src/analyzer.ts.
singleFileSummary(analyzed) ==
  join(<<"# GraphQL Schema Analysis\n">>
         \o <<"## Entity Types\n">>
         \o linesFrom(entityLines, analyzed.entities, 1)
         \o <<"## Query Operations\n">>
         \o [q \in 1..Len(analyzed.queries) |-> operationLine(analyzed.queries[q])]
         \o <<"">>
         \o (IF Len(analyzed.mutations) > 0
             THEN <<"## Mutation Operations\n">>
                    \o linesFrom(mutationLines, analyzed.mutations, 1)
                    \o <<"">>
             ELSE <<>>)
         \o (IF Len(analyzed.relationships) > 0
             THEN <<"## Type Relationships\n">>
                    \o [r \in 1..Len(analyzed.relationships) |->
                          relationshipLine(analyzed.relationships[r])]
             ELSE <<>>),
       "\n")

----------------------------------------------------------------------------
\* ai-config-generator/index.ts: generateCacheConfig, one action per step
\* between two awaits.  gpc names the await the call stands at.

\* The catch clause of generateCacheConfig passing the error on.
catchRethrows(completion) == completion

\* The catch clause of generateCacheConfig: every error thrown in the try
\* block becomes a returned result.
catchOf(completion) ==
  IF completion.type = "throw"
  THEN Normal([success |-> FALSE, error |-> completion.message])
  ELSE completion

\* The promise of an async function whose body completed.
promiseOf(completion) ==
  IF completion.type = "throw"
  THEN [status |-> "rejected", reason |-> completion.message]
  ELSE [status |-> "fulfilled", value |-> completion.value]

\* The provider's result for an answer of the given text.
resultOf(provider, text) ==
  CASE provider = "anthropic" ->
         JObj(<<Prop("content", JArr(<<JObj(<<Prop("text", JStr(text))>>)>>))>>)
    [] provider = "gemini" ->
         JObj(<<Prop("candidates", JArr(<<
           JObj(<<Prop("content",
             JObj(<<Prop("parts", JArr(<<JObj(<<Prop("text", JStr(text))>>)>>))>>))>>)>>))>>)
    [] OTHER ->
         JObj(<<Prop("choices", JArr(<<
           JObj(<<Prop("message", JObj(<<Prop("content", JStr(text))>>))>>)>>))>>)

\* Results without the text: an error object, an empty content list, and
\* a content entry, message or part that has no text.
TextlessResults ==
  {JObj(<<Prop("error", JStr("overloaded"))>>),
   JObj(<<Prop("content", JArr(<<>>)), Prop("choices", JArr(<<>>)),
          Prop("candidates", JArr(<<>>))>>),
   JObj(<<Prop("content", JArr(<<JObj(<<>>)>>)),
          Prop("choices", JArr(<<JObj(<<Prop("message", JObj(<<>>))>>)>>)),
          Prop("candidates", JArr(<<
            JObj(<<Prop("content", JObj(<<Prop("parts", JArr(<<JObj(<<>>)>>))>>))>>)>>))>>)}

ResponseBodies ==
  {JsonDocuments[d].text : d \in DOMAIN JsonDocuments}
    \cup {"not json", "{\"rules\":["}

\* A body as it is, in a fenced block with and without the word json, in a
\* fenced block between two lines of prose, and behind an unclosed fence.
Wrappings(body) ==
  {body,
   Fence \o "json\n" \o body \o "\n" \o Fence,
   Fence \o "\n" \o body \o "\n" \o Fence \o "\n",
   "Here is the configuration:\n" \o Fence \o "json\n" \o body \o "\n" \o Fence
     \o "\nDone.",
   Fence \o "json\n" \o body}

ResponseTexts == UNION {Wrappings(body) : body \in ResponseBodies}

\* What the provider's server does with the one request.
Servers(provider) ==
  {[kind |-> "networkError", message |-> "fetch failed"]}
    \cup {[kind |-> "response", ok |-> FALSE, status |-> st, text |-> tx]
            : st \in {401, 500},
              tx \in {Normal("unauthorized"), Throw("terminated")}}
    \cup {[kind |-> "response", ok |-> TRUE, status |-> 200, json |-> js]
            : js \in {Throw("Unexpected end of JSON input")}
                      \cup {Normal(r) : r \in TextlessResults}
                      \cup {Normal(resultOf(provider, t)) : t \in ResponseTexts}}

AnalyzerIdle ==
  /\ schema = IntrospectionSchema(NullRoot, NullRoot, NullRoot, <<>>)
  /\ pc = "idle"
  /\ typeMap = <<>>
  /\ entities = <<>>
  /\ queries = <<>>
  /\ mutations = <<>>
  /\ relationships = <<>>
  /\ config = <<>>
  /\ analyses = <<>>
  /\ summaries = <<>>

InitGenerator ==
  /\ gpc = "start"
  /\ \E provider \in {getSupportedProviders[i] : i \in DOMAIN getSupportedProviders} :
       /\ aiConfig \in {[provider |-> provider, apiKey |-> k] : k \in {"", "sk-test"}}
       /\ server \in Servers(provider)
  /\ preferences \in {Undefined, JObj(<<Prop("defaultTtl", JStr("short"))>>)}
  /\ requests = <<>>
  /\ generation = [status |-> "pending"]
  /\ AnalyzerIdle
  /\ CollaboratorsIdle
  /\ FetchIdle
  /\ ResolverIdle

\* The call returns or throws: its promise settles.
Settle(completion) ==
  /\ generation' = promiseOf(catchOf(completion))
  /\ gpc' = "settled"

\* From the call to the await of fetch.
ValidateAndCall ==
  /\ gpc = "start"
  /\ IF aiConfig.apiKey = ""
     THEN /\ Settle(Throw(aiConfig.provider \o " API key is required"))
          /\ UNCHANGED requests
     ELSE /\ requests' = Append(requests, [provider |-> aiConfig.provider,
                                            method |-> "POST"])
          /\ gpc' = "awaitFetch"
          /\ UNCHANGED generation
  /\ UNCHANGED <<aiConfig, preferences, server>>
  /\ UNCHANGED outsideGenerator

\* fetch rejects: the error reaches the catch clause.
FetchRejects ==
  /\ gpc = "awaitFetch"
  /\ server.kind = "networkError"
  /\ Settle(Throw(server.message))
  /\ UNCHANGED <<aiConfig, preferences, server, requests>>
  /\ UNCHANGED outsideGenerator

\* fetch resolves: the next await is response.text() or response.json().
FetchResolves ==
  /\ gpc = "awaitFetch"
  /\ server.kind = "response"
  /\ gpc' = IF ~server.ok THEN "awaitText" ELSE "awaitJson"
  /\ UNCHANGED <<aiConfig, preferences, server, requests, generation>>
  /\ UNCHANGED outsideGenerator

\* response.text() settles: the API error, or the rejection, is thrown.
TextSettles ==
  /\ gpc = "awaitText"
  /\ Settle(IF server.text.type = "throw"
            THEN server.text
            ELSE apiError(aiConfig.provider, server.status, server.text.value))
  /\ UNCHANGED <<aiConfig, preferences, server, requests>>
  /\ UNCHANGED outsideGenerator

\* The rest of the try block once response.json() has settled.
afterJson(provider, json, prefs) ==
  IF json.type = "throw" THEN json
  ELSE LET responseText == extractResponse(provider, json.value)
       IN  IF responseText.type = "throw" THEN responseText
           ELSE IF responseText.value.t # "string"
           THEN Throw("Cannot read properties of undefined (reading 'match')")
           ELSE LET aiResponse == parseAIResponse(responseText.value.v)
                IN  IF aiResponse.type = "throw" THEN aiResponse
                    ELSE Normal([success |-> TRUE,
                                 config |-> convertToOrionConfig(aiResponse.value, prefs),
                                 aiResponse |-> aiResponse.value])

JsonSettles ==
  /\ gpc = "awaitJson"
  /\ Settle(afterJson(aiConfig.provider, server.json, preferences))
  /\ UNCHANGED <<aiConfig, preferences, server, requests>>
  /\ UNCHANGED outsideGenerator

NextGenerator ==
  \/ ValidateAndCall
  \/ FetchRejects
  \/ FetchResolves
  \/ TextSettles
  \/ JsonSettles

SpecGenerator == InitGenerator /\ [][NextGenerator]_vars


----------------------------------------------------------------------------
\* introspection.ts: the credential and endpoint operations, one action per
\* step between two awaits.  cpc names the await the operation stands at;
\* the failures of the file system and the answers of the endpoint are the
\* environment's choice.

\* The credentials file as the program or its user left it.
CredentialsFiles ==
  {NoFile,
   File("0600", JObj(<<Prop("savedAt", JStr("T0")),
                       Prop("ai", JObj(<<Prop("openai", JStr("sk-old"))>>))>>)),
   File("0600", JObj(<<Prop("fastly", JObj(<<Prop("apiToken", JStr("ft-old"))>>)),
                       Prop("ai", JObj(<<Prop("openai", JStr("sk-old")),
                                         Prop("gemini", JStr("g-old"))>>)),
                       Prop("savedAt", JStr("T0"))>>)),
   File("0644", JObj(<<Prop("savedAt", JStr("T0"))>>)),
   File("0600", JObj(<<Prop("ai", JStr("none"))>>)),
   File("0600", JStr("credentials")),
   File("0600", JNull),
   File("0600", Garbage)}

TfstateFiles ==
  {NoFile,
   File("0644", Garbage),
   File("0644", JNull),
   File("0644", JObj(<<Prop("version", JNum(4))>>)),
   File("0644", JObj(<<Prop("outputs", JObj(<<Prop("compute_service", JObj(<<
     Prop("value", JObj(<<Prop("backend_domain", JStr("api.example.com")),
                          Prop("backend_protocol", JStr("https"))>>))>>))>>))>>)),
   File("0644", JObj(<<Prop("outputs", JObj(<<Prop("compute_service", JObj(<<
     Prop("value", JObj(<<Prop("backend_domain",
                               JStr("api.example.com"))>>))>>))>>))>>))}

\* The mode of a file writeFile creates: 0666 less the umask.
CreationModes == {"0644", "0664", "0600"}

EndpointData ==
  {JNull,
   JObj(<<Prop("data", JObj(<<>>))>>),
   JObj(<<Prop("errors", JArr(<<>>))>>),
   JObj(<<Prop("errors", JArr(<<JNull>>))>>),
   JObj(<<Prop("errors", JArr(<<
     JObj(<<Prop("message", JStr("GraphQL Introspection is not allowed"))>>)>>))>>),
   JObj(<<Prop("errors", JArr(<<JObj(<<Prop("message", JStr("Unauthorized"))>>)>>))>>)}

\* What the tested endpoint does: no answer before the timer aborts the
\* request, a network error, or a response.
EndpointServers ==
  {[kind |-> "abort"], [kind |-> "networkError", message |-> "fetch failed"],
   [kind |-> "response", ok |-> FALSE, status |-> 503,
    statusText |-> "Service Unavailable"]}
    \cup {[kind |-> "response", ok |-> TRUE, status |-> 200, json |-> js]
            : js \in {Throw("Unexpected end of JSON input")}
                      \cup {Normal(d) : d \in EndpointData}}

Operations ==
  {[name |-> "getSavedCredentials"],
   [name |-> "getGraphQLEndpointFromTerraform"],
   [name |-> "testEndpointReachability"]}
    \cup {[name |-> n, provider |-> pr]
            : n \in {"getAIKeyFromCredentials"}, pr \in {"anthropic", "openai"}}
    \cup {[name |-> "saveAIKeyToCredentials", provider |-> pr, apiKey |-> key]
            : pr \in {"anthropic", "openai"}, key \in {"sk-new", "sk-newer"}}

InitCollaborators ==
  /\ cop = [name |-> "none"]
  /\ cpc = "idle"
  /\ credentialsFile \in CredentialsFiles
  /\ tfstateFile \in TfstateFiles
  /\ credentials = Undefined
  /\ endpointServer = [kind |-> "networkError", message |-> "fetch failed"]
  /\ outcome = [status |-> "pending"]
  /\ calls = 0
  /\ AnalyzerIdle
  /\ GeneratorIdle
  /\ FetchIdle
  /\ ResolverIdle

\* The operation returns or throws: its promise settles.
Finish(completion) ==
  /\ outcome' = promiseOf(completion)
  /\ cpc' = "idle"

\* An operation is called and runs to its first await.
Call ==
  /\ cpc = "idle"
  /\ calls < MaxCalls
  /\ calls' = calls + 1
  /\ cop' \in Operations
  /\ outcome' = [status |-> "pending"]
  /\ cpc' = CASE cop'.name = "saveAIKeyToCredentials" -> "mkdir"
               [] cop'.name = "getGraphQLEndpointFromTerraform" -> "readState"
               [] cop'.name = "testEndpointReachability" -> "fetch"
               [] OTHER -> "load"
  /\ IF cop'.name = "testEndpointReachability"
     THEN endpointServer' \in EndpointServers
     ELSE UNCHANGED endpointServer
  /\ UNCHANGED <<credentialsFile, tfstateFile, credentials>>
  /\ UNCHANGED outsideCollaborators

\* await mkdir(ORION_CONFIG_DIR, {recursive: true})
Mkdir ==
  /\ cpc = "mkdir"
  /\ \/ cpc' = "load" /\ UNCHANGED outcome
     \/ Finish(Throw("EACCES: permission denied, mkdir"))
  /\ UNCHANGED <<cop, credentialsFile, tfstateFile, credentials, endpointServer, calls>>
  /\ UNCHANGED outsideCollaborators


\* getSavedCredentials, and what its caller does up to the next await.
Load ==
  /\ cpc = "load"
  /\ \E readFails \in BOOLEAN :
       LET saved == getSavedCredentials(credentialsFile, readFails)
       IN  CASE cop.name = "getSavedCredentials" ->
                  Finish(Normal(saved)) /\ UNCHANGED credentials
             [] cop.name = "getAIKeyFromCredentials" ->
                  /\ Finish(Normal(getAIKeyFromCredentials(saved, cop.provider)))
                  /\ UNCHANGED credentials
             [] OTHER ->
                  LET toSave == credentialsToSave(saved, cop.provider, cop.apiKey,
                                                  now(calls))
                  IN  IF toSave.type = "throw"
                      THEN Finish(toSave) /\ UNCHANGED credentials
                      ELSE /\ credentials' = toSave.value
                           /\ cpc' = "writeFile"
                           /\ UNCHANGED outcome
  /\ UNCHANGED <<cop, credentialsFile, tfstateFile, endpointServer, calls>>
  /\ UNCHANGED outsideCollaborators

\* await writeFile(CREDENTIALS_PATH, JSON.stringify(credentials, null, 2)):
\* an existing file keeps its mode, a new one gets the creation mode.
WriteFile ==
  /\ cpc = "writeFile"
  /\ \/ /\ \E mode \in CreationModes :
               credentialsFile' =
                 File(IF credentialsFile.exists THEN credentialsFile.mode ELSE mode,
                      credentials)
          /\ cpc' = "chmod"
          /\ UNCHANGED outcome
     \/ /\ Finish(Throw("EACCES: permission denied, open"))
          /\ UNCHANGED credentialsFile
  /\ UNCHANGED <<cop, tfstateFile, credentials, endpointServer, calls>>
  /\ UNCHANGED outsideCollaborators

\* await chmod(CREDENTIALS_PATH, 0o600), and the return.
Chmod ==
  /\ cpc = "chmod"
  /\ \/ /\ credentialsFile' = [credentialsFile EXCEPT !.mode = "0600"]
          /\ Finish(Normal(Undefined))
     \/ /\ Finish(Throw("EPERM: operation not permitted, chmod"))
          /\ UNCHANGED credentialsFile
  /\ UNCHANGED <<cop, tfstateFile, credentials, endpointServer, calls>>
  /\ UNCHANGED outsideCollaborators

\* getGraphQLEndpointFromTerraform from await readFile to the return.
ReadState ==
  /\ cpc = "readState"
  /\ \E readFails \in BOOLEAN :
       Finish(Normal(getGraphQLEndpointFromTerraform(tfstateFile, readFails)))
  /\ UNCHANGED <<cop, credentialsFile, tfstateFile, credentials, endpointServer, calls>>
  /\ UNCHANGED outsideCollaborators

\* The catch clause of testEndpointReachability.
reachabilityCatch(completion, isAbortError) ==
  IF completion.type = "normal" THEN completion
  ELSE IF isAbortError
  THEN Normal([reachable |-> FALSE, error |-> "Request timed out (5 seconds)"])
  ELSE Normal([reachable |-> FALSE, error |-> completion.message])

\* testEndpointReachability after await response.json().
reachabilityOf(json) ==
  IF json.type = "throw" THEN json
  ELSE IF getPropThrows(json.value)
  THEN Throw("Cannot read properties of null (reading 'errors')")
  ELSE LET errors == getProp(json.value, "errors")
       IN  IF errors.t = "array" /\ Len(errors.v) > 0
           THEN IF getPropThrows(errors.v[1])
                THEN Throw("Cannot read properties of null (reading 'message')")
                ELSE LET message == getProp(errors.v[1], "message")
                     IN  IF message.t = "string" /\ message.v # ""
                            /\ includes(toLowerCase(message.v), "introspection")
                         THEN Normal([reachable |-> TRUE])
                         ELSE Normal([reachable |-> FALSE,
                                      error |-> "GraphQL error: "
                                                  \o templateString(message)])
           ELSE Normal([reachable |-> TRUE])

\* await fetch(endpoint, ...) settles: rejected by the abort or a network
\* error, or resolved with a response.
ReachabilityFetchSettles ==
  /\ cpc = "fetch"
  /\ CASE endpointServer.kind = "abort" ->
            Finish(reachabilityCatch(Throw("This operation was aborted"), TRUE))
       [] endpointServer.kind = "networkError" ->
            Finish(reachabilityCatch(Throw(endpointServer.message), FALSE))
       [] OTHER ->
            IF ~endpointServer.ok
            THEN Finish(Normal([reachable |-> FALSE,
                                error |-> "HTTP " \o numberToString(endpointServer.status)
                                            \o ": " \o endpointServer.statusText]))
            ELSE cpc' = "json" /\ UNCHANGED outcome
  /\ UNCHANGED <<cop, credentialsFile, tfstateFile, credentials, endpointServer, calls>>
  /\ UNCHANGED outsideCollaborators

ReachabilityJsonSettles ==
  /\ cpc = "json"
  /\ Finish(reachabilityCatch(reachabilityOf(endpointServer.json), FALSE))
  /\ UNCHANGED <<cop, credentialsFile, tfstateFile, credentials, endpointServer, calls>>
  /\ UNCHANGED outsideCollaborators

NextCollaborators ==
  \/ Call
  \/ Mkdir
  \/ Load
  \/ WriteFile
  \/ Chmod
  \/ ReadState
  \/ ReachabilityFetchSettles
  \/ ReachabilityJsonSettles

SpecCollaborators == InitCollaborators /\ [][NextCollaborators]_vars


----------------------------------------------------------------------------
\* introspection.ts: fetchSchema, one action per step between two awaits,
\* with the timer of setTimeout, the passing of time and the server.  Time
\* is counted in units of the timeout's resolution; a step of the program
\* that is due is taken before time passes on.

\* The catch clause of fetchSchema.
fetchSchemaCatch(completion, isAbortError, ms) ==
  IF completion.type = "normal" THEN completion
  ELSE IF isAbortError
  THEN Normal([success |-> FALSE,
               error |-> "Request timeout after " \o numberToString(ms) \o "ms"])
  ELSE Normal([success |-> FALSE, error |-> completion.message])

\* result.errors.map((e) => e.message).join("; ")
RECURSIVE joinMessages(_, _)
joinMessages(errors, i) ==
  IF i > Len(errors) THEN ""
  ELSE templateString(getProp(errors[i], "message"))
         \o (IF i < Len(errors) THEN "; " ELSE "")
         \o joinMessages(errors, i + 1)

\* fetchSchema after await response.json().
introspectionOf(json) ==
  IF json.type = "throw" THEN json
  ELSE IF getPropThrows(json.value)
  THEN Throw("Cannot read properties of null (reading 'errors')")
  ELSE LET errors == getProp(json.value, "errors")
           schemaOf == optionalProp(getProp(json.value, "data"), "__schema")
       IN  IF errors.t = "array" /\ Len(errors.v) > 0
           THEN IF \E i \in 1..Len(errors.v) : getPropThrows(errors.v[i])
                THEN Throw("Cannot read properties of null (reading 'message')")
                ELSE Normal([success |-> FALSE,
                             error |-> "GraphQL errors: " \o joinMessages(errors.v, 1)])
           ELSE IF ~truthy(schemaOf)
           THEN Normal([success |-> FALSE,
                        error |-> "Invalid introspection response: missing __schema"])
           ELSE Normal([success |-> TRUE, schema |-> schemaOf])

IntrospectionData ==
  {JNull,
   JObj(<<>>),
   JObj(<<Prop("data", JNull)>>),
   JObj(<<Prop("data", JObj(<<Prop("__schema", JObj(<<Prop("types", JArr(<<>>))>>))>>))>>),
   JObj(<<Prop("errors", JArr(<<JObj(<<Prop("message", JStr("Not allowed"))>>),
                                JObj(<<Prop("message", JStr("Try later"))>>)>>))>>),
   JObj(<<Prop("errors", JArr(<<JNull>>))>>)}

\* What the server of the endpoint answers, if and when it answers.
Origins ==
  {[kind |-> "networkError", message |-> "fetch failed"],
   [kind |-> "response", ok |-> FALSE, status |-> 500,
    statusText |-> "Internal Server Error"]}
    \cup {[kind |-> "response", ok |-> TRUE, status |-> 200, json |-> js]
            : js \in {Throw("Unexpected end of JSON input")}
                      \cup {Normal(d) : d \in IntrospectionData}}

MaxClock == MaxTimeout + 2

InitFetch ==
  /\ fpc = "start"
  /\ timeout \in 1..MaxTimeout
  /\ clock = 0
  /\ timer = FALSE
  /\ aborted = FALSE
  /\ delivered = "nothing"
  /\ origin \in Origins
  /\ introspection = [status |-> "pending"]
  /\ AnalyzerIdle
  /\ GeneratorIdle
  /\ CollaboratorsIdle
  /\ ResolverIdle

\* fetchSchema returns or throws: its promise settles.
Resolve(completion) ==
  /\ introspection' = promiseOf(completion)
  /\ fpc' = "settled"

\* From the call to await fetch: the timeout is scheduled, the request sent.
StartFetch ==
  /\ fpc = "start"
  /\ timer' = TRUE
  /\ fpc' = "awaitFetch"
  /\ UNCHANGED <<timeout, clock, aborted, delivered, origin, introspection>>
  /\ UNCHANGED outsideFetch

\* setTimeout(() => controller.abort(), timeout): the callback runs.
TimerFires ==
  /\ timer
  /\ clock >= timeout
  /\ timer' = FALSE
  /\ aborted' = TRUE
  /\ UNCHANGED <<fpc, timeout, clock, delivered, origin, introspection>>
  /\ UNCHANGED outsideFetch

\* The server sends the status line and the headers of its response.
ServerSendsHeaders ==
  /\ fpc = "awaitFetch"
  /\ ~aborted
  /\ origin.kind = "response"
  /\ delivered = "nothing"
  /\ delivered' = "headers"
  /\ UNCHANGED <<fpc, timeout, clock, timer, aborted, origin, introspection>>
  /\ UNCHANGED outsideFetch

\* The server sends the rest of the body.
ServerSendsBody ==
  /\ ~aborted
  /\ delivered = "headers"
  /\ delivered' = "body"
  /\ UNCHANGED <<fpc, timeout, clock, timer, aborted, origin, introspection>>
  /\ UNCHANGED outsideFetch

\* await fetch settles: rejected by the abort or by a network error, or
\* resolved once the headers are there; then clearTimeout(timeoutId).
FetchSettles ==
  /\ fpc = "awaitFetch"
  /\ \/ /\ aborted
          /\ Resolve(fetchSchemaCatch(Throw("This operation was aborted"), TRUE,
                                       timeout))
          /\ UNCHANGED timer
     \/ /\ ~aborted
          /\ origin.kind = "networkError"
          /\ Resolve(fetchSchemaCatch(Throw(origin.message), FALSE, timeout))
          /\ UNCHANGED timer
     \/ /\ ~aborted
          /\ delivered # "nothing"
          /\ timer' = FALSE
          /\ IF ~origin.ok
             THEN Resolve(Normal([success |-> FALSE,
                                  error |-> "HTTP " \o numberToString(origin.status)
                                              \o ": " \o origin.statusText]))
             ELSE fpc' = "awaitJson" /\ UNCHANGED introspection
  /\ UNCHANGED <<timeout, clock, aborted, delivered, origin>>
  /\ UNCHANGED outsideFetch

\* await response.json() settles once the body is complete.
BodySettles ==
  /\ fpc = "awaitJson"
  /\ delivered = "body"
  /\ Resolve(fetchSchemaCatch(introspectionOf(origin.json), FALSE, timeout))
  /\ UNCHANGED <<timeout, clock, timer, aborted, delivered, origin>>
  /\ UNCHANGED outsideFetch

\* A step of the program is due.
StepDue ==
  \/ fpc = "start"
  \/ timer /\ clock >= timeout
  \/ fpc = "awaitFetch" /\ (aborted \/ origin.kind = "networkError"
                              \/ delivered # "nothing")
  \/ fpc = "awaitJson" /\ delivered = "body"

\* Time passes.
Tick ==
  /\ ~StepDue
  /\ clock < MaxClock
  /\ clock' = clock + 1
  /\ UNCHANGED <<fpc, timeout, timer, aborted, delivered, origin, introspection>>
  /\ UNCHANGED outsideFetch

NextFetch ==
  \/ StartFetch
  \/ TimerFires
  \/ ServerSendsHeaders
  \/ ServerSendsBody
  \/ FetchSettles
  \/ BodySettles
  \/ Tick

SpecFetch == InitFetch /\ [][NextFetch]_vars

----------------------------------------------------------------------------
\* analyzer/type-utils.ts: unwrapType called up to MaxResolutions times on
\* one type reference.

InitResolver ==
  /\ reference \in TypeRefs \cup {NullRef}
  /\ resolutions = <<>>
  /\ AnalyzerIdle
  /\ GeneratorIdle
  /\ CollaboratorsIdle
  /\ FetchIdle

\* unwrapType advancing the reference of its caller instead of a local.
UnwrapTypeInPlace ==
  /\ Len(resolutions) < MaxResolutions
  /\ resolutions' = Append(resolutions,
                           IF refThrows(reference) THEN Throw("TypeError")
                           ELSE Normal(unwrapType(reference)))
  /\ reference' = IF Len(reference) > 1 THEN <<reference[Len(reference)]>> ELSE reference
  /\ UNCHANGED outsideResolver

UnwrapType ==
  /\ Len(resolutions) < MaxResolutions
  /\ resolutions' = Append(resolutions,
                           IF refThrows(reference) THEN Throw("TypeError")
                           ELSE Normal(unwrapType(reference)))
  /\ UNCHANGED reference
  /\ UNCHANGED outsideResolver

NextResolver == UnwrapType

SpecResolver == InitResolver /\ [][NextResolver]_vars

----------------------------------------------------------------------------
\* Vocabulary of the properties.

Elems(seq) == {seq[i] : i \in DOMAIN seq}

NoDuplicates(seq) == \A i, j \in DOMAIN seq : seq[i] = seq[j] => i = j

EntitiesExtracted ==
  pc \in {"extractQueries", "extractMutations", "buildRelationships",
          "enrichEntities", "done"}

QueriesExtracted ==
  pc \in {"extractMutations", "buildRelationships", "enrichEntities", "done"}

MutationsExtracted == pc \in {"buildRelationships", "enrichEntities", "done"}

Returned == pc = "done"

TypePresent(n) == \E i \in DOMAIN schema.types : schema.types[i].name = n

TypeNamed(n) ==
  schema.types[CHOOSE i \in DOMAIN schema.types : schema.types[i].name = n]

IsEntityName(n) == \E e \in DOMAIN entities : entities[e].name = n

\* A type reference read as a chain: its last node is the terminal, the
\* nodes before it are the wrappers.
TerminalName(ref) == ref[Len(ref)].name

ResolvedName(ref) ==
  IF TerminalName(ref) = NullName \/ TerminalName(ref) = ""
  THEN "Unknown"
  ELSE TerminalName(ref)

HasWrapper(ref, kind) == \E i \in 1..(Len(ref) - 1) : ref[i].kind = kind

\* The null type references analyzeSchema runs into: in a field of a type
\* that becomes an entity, or in a field or argument of a designated root.
NullRefInFields(type) ==
  /\ type.hasFields
  /\ \E f \in DOMAIN type.fields : type.fields[f].type = NullRef

NullRefInArgs(type) ==
  /\ type.hasFields
  /\ \E f \in DOMAIN type.fields :
       \E a \in DOMAIN type.fields[f].args : type.fields[f].args[a].type = NullRef

NullRefInRoot(root) ==
  /\ ~root.isNull
  /\ TypePresent(root.name)
  /\ NullRefInFields(TypeNamed(root.name)) \/ NullRefInArgs(TypeNamed(root.name))

NullRefMet ==
  \/ \E i \in DOMAIN schema.types :
       /\ schema.types[i].kind = "OBJECT"
       /\ schema.types[i].name \notin BUILT_IN_TYPES
       /\ ~startsWith(schema.types[i].name, "__")
       /\ NullRefInFields(schema.types[i])
  \/ NullRefInRoot(schema.queryType)
  \/ NullRefInRoot(schema.mutationType)

\* A root designated by name that yields no field list: no type of that
\* name in the type list, or a type whose field list is null.
RootMissing(root) == ~root.isNull /\ ~TypePresent(root.name)

RootWithoutFields(root) ==
  /\ ~root.isNull
  /\ TypePresent(root.name)
  /\ ~TypeNamed(root.name).hasFields

----------------------------------------------------------------------------
\* C1: after analyzeSchema, for every entity B and every name A, A is in
\* B.referencedBy iff the relationship list has an edge from A to B.
C1_ReferencedByIffEdge ==
  Returned =>
    \A b \in DOMAIN entities :
      Elems(entities[b].referencedBy) =
        {relationships[r].from :
           r \in {q \in DOMAIN relationships :
                    relationships[q].to = entities[b].name}}

\* C1 witness: an analysis has returned an entity that is referenced through
\* two edges from the same source and lists that source.
C1_Witness ==
  /\ Returned
  /\ \E b \in DOMAIN entities :
       /\ entities[b].referencedBy # <<>>
       /\ \E r1, r2 \in DOMAIN relationships :
            /\ r1 # r2
            /\ relationships[r1].to = entities[b].name
            /\ relationships[r2].to = entities[b].name
            /\ relationships[r1].from = relationships[r2].from

\* C2: after analyzeSchema no entity's name is in its own references list and
\* no edge has from = to.
C2_NoSelfReference ==
  Returned =>
    /\ \A e \in DOMAIN entities :
         entities[e].name \notin Elems(entities[e].references)
    /\ \A r \in DOMAIN relationships :
         relationships[r].from # relationships[r].to

VerbPrefixes ==
  {"create", "add", "insert", "update", "edit", "modify", "delete", "remove",
   "destroy"}

PrefixDerived(name) ==
  {toUpperCase(SubSeq(name, Len(p) + 1, Len(p) + 1))
     \o SubSeq(name, Len(p) + 2, Len(name))
     : p \in {q \in VerbPrefixes :
                /\ Len(q) < Len(name)
                /\ toLowerCase(SubSeq(name, 1, Len(q))) = q}}

ReturnTypeHit(returnType) ==
  /\ TypePresent(returnType)
  /\ TypeNamed(returnType).kind = "OBJECT"
  /\ returnType \notin BUILT_IN_TYPES

C5_AffectedTypesAreEntities ==
  Returned =>
    \A m \in DOMAIN mutations :
      \A t \in Elems(mutations[m].affectedTypes) : IsEntityName(t)

\* C6 as stated: when the schema designates a query or mutation root that the
\* type list does not hold, or that has no field list, analyzeSchema does not
\* return.
C6_MissingRootFails ==
  (\/ RootMissing(schema.queryType)
   \/ RootMissing(schema.mutationType)
   \/ RootWithoutFields(schema.queryType)
   \/ RootWithoutFields(schema.mutationType))
    => ~Returned

\* C6 amended: a designated root that the type list does not hold, or that
\* has a null field list, does not fail the analysis; the returned
\* AnalyzedSchema has an empty operation list for that root.  analyzeSchema
\* fails exactly when a field or argument it resolves has a null type
\* reference, and never returns in that case.
C6_MissingRootYieldsNoOperations ==
  /\ (Returned /\ (RootMissing(schema.queryType) \/ RootWithoutFields(schema.queryType)))
       => queries = <<>>
  /\ (Returned /\ (RootMissing(schema.mutationType) \/ RootWithoutFields(schema.mutationType)))
       => mutations = <<>>
  /\ pc = "failed" => NullRefMet
  /\ Returned => ~NullRefMet

\* C6 witness: an analysis has returned, without mutations, for a schema
\* whose mutation root names no type of the list, while the list holds a type
\* Mutation with fields.
C6_Witness ==
  /\ Returned
  /\ RootMissing(schema.mutationType)
  /\ mutations = <<>>
  /\ TypePresent("Mutation")
  /\ TypeNamed("Mutation").fields # <<>>

\* The operations of C7 for one designated root.
OperationsMatch(ops, root) ==
  IF root.isNull \/ RootMissing(root) \/ RootWithoutFields(root)
  THEN ops = <<>>
  ELSE LET fs == TypeNamed(root.name).fields
       IN  /\ Len(ops) = Len(fs)
           /\ \A f \in DOMAIN fs :
                /\ ops[f].name = fs[f].name
                /\ ops[f].returnType = ResolvedName(fs[f].type)
                /\ ops[f].returnsList = HasWrapper(fs[f].type, "LIST")
                /\ Len(ops[f].arguments) = Len(fs[f].args)
                /\ \A a \in DOMAIN fs[f].args :
                     /\ ops[f].arguments[a].name = fs[f].args[a].name
                     /\ ops[f].arguments[a].typeName = ResolvedName(fs[f].args[a].type)
                     /\ ops[f].arguments[a].isRequired
                          = HasWrapper(fs[f].args[a].type, "NON_NULL")

\* C7: the query and mutation lists hold one Operation per field of their
\* root type, in field order, with the resolved return type, list flag and
\* arguments (isRequired = resolved NonNull flag); they are empty when the
\* root type is absent or has a null field list; the subscription root gives
\* no operations.
C7_OneOperationPerRootField ==
  /\ QueriesExtracted => OperationsMatch(queries, schema.queryType)
  /\ MutationsExtracted => OperationsMatch(mutations, schema.mutationType)
  /\ (schema.queryType.isNull /\ schema.mutationType.isNull)
       => (queries = <<>> /\ mutations = <<>>)

\* C7 witness: two mutations were extracted in field order, the first with a
\* required and an optional argument.
C7_Witness ==
  /\ Returned
  /\ Len(mutations) = 2
  /\ mutations[1].name = "deleteWidget"
  /\ mutations[1].returnsList
  /\ mutations[2].name = "createWidget"
  /\ Len(mutations[1].arguments) = 2
  /\ mutations[1].arguments[1].isRequired
  /\ ~mutations[1].arguments[2].isRequired

\* The qualifying types of C8, by position in the type list.
Qualifying ==
  {i \in DOMAIN schema.types :
     /\ schema.types[i].kind = "OBJECT"
     /\ schema.types[i].hasFields
     /\ schema.types[i].name \notin BUILT_IN_TYPES
     /\ ~(Len(schema.types[i].name) >= 2 /\ SubSeq(schema.types[i].name, 1, 2) = "__")}

Lowercased(patterns) == {toLowerCase(patterns[p]) : p \in DOMAIN patterns}

VolatileLowercased == Lowercased(VOLATILE_FIELD_PATTERNS)

UserSpecificLowercased == Lowercased(USER_SPECIFIC_PATTERNS)

SensitiveLowercased == Lowercased(SENSITIVE_FIELD_PATTERNS)

\* A field name matches a pattern list: lowercased, it contains a lowercased
\* pattern.
MatchesSome(fieldName, lowercased) ==
  LET name == toLowerCase(fieldName)
  IN  \E low \in lowercased :
        \E k \in 1..(Len(name) - Len(low) + 1) :
          SubSeq(name, k, k + Len(low) - 1) = low

\* C9: volatile, userSpecific and sensitive are each true iff some field name
\* matches the trait's pattern list; hasId iff a field is named id, _id or
\* ID; UserProfile [id, email, updatedAt] is hasId, sensitive, volatile, not
\* userSpecific, not a collection, not a root type.
C9_Characteristics ==
  EntitiesExtracted =>
    \A e \in DOMAIN entities :
      LET fs == TypeNamed(entities[e].name).fields
          names == {fs[f].name : f \in DOMAIN fs}
          c == entities[e].characteristics
      IN  /\ c.isVolatile <=> \E n \in names : MatchesSome(n, VolatileLowercased)
          /\ c.isUserSpecific <=> \E n \in names : MatchesSome(n, UserSpecificLowercased)
          /\ c.hasSensitiveFields <=> \E n \in names : MatchesSome(n, SensitiveLowercased)
          /\ entities[e].hasId <=> names \cap {"id", "_id", "ID"} # {}
          /\ (entities[e].name = "UserProfile"
                /\ [f \in DOMAIN fs |-> fs[f].name] = <<"id", "email", "updatedAt">>)
               => /\ entities[e].hasId
                  /\ c.hasSensitiveFields
                  /\ c.isVolatile
                  /\ ~c.isUserSpecific
                  /\ ~c.isCollection
                  /\ ~c.isRootType

\* C9 witness: the entity UserProfile with the fields id, email, updatedAt.
C9_Witness ==
  /\ EntitiesExtracted
  /\ \E e \in DOMAIN entities :
       /\ entities[e].name = "UserProfile"
       /\ [f \in DOMAIN entities[e].fields |-> entities[e].fields[f].name]
            = <<"id", "email", "updatedAt">>
       /\ entities[e].characteristics.isVolatile

\* C10: for every type reference, unwrapType gives the terminal's name, or
\* "Unknown" when it has none, isNonNull iff some wrapper has kind NON_NULL
\* and isList iff some wrapper has kind LIST, at any depth and in any order;
\* an unnamed terminal does not fail the analysis.
C10_UnwrapType ==
  /\ EntitiesExtracted =>
       \A e \in DOMAIN entities :
         \A f \in DOMAIN entities[e].fields :
           LET ref == TypeNamed(entities[e].name).fields[f].type
               info == entities[e].fields[f]
           IN  /\ info.typeName =
                    (IF TerminalName(ref) = NullName \/ TerminalName(ref) = ""
                     THEN "Unknown"
                     ELSE TerminalName(ref))
               /\ info.isNonNull <=> \E i \in 1..(Len(ref) - 1) : ref[i].kind = "NON_NULL"
               /\ info.isList <=> \E i \in 1..(Len(ref) - 1) : ref[i].kind = "LIST"
  /\ pc = "failed" => NullRefMet

\* C10 witness: a field whose reference has a LIST wrapper outside a
\* NON_NULL wrapper outside a third wrapper around an unnamed terminal was
\* resolved to Unknown, non-null, list.
C10_Witness ==
  /\ Returned
  /\ \E e \in DOMAIN entities :
       \E f \in DOMAIN entities[e].fields :
         LET ref == TypeNamed(entities[e].name).fields[f].type
         IN  /\ Len(ref) = 4
             /\ ref[1].kind = "LIST"
             /\ ref[2].kind = "NON_NULL"
             /\ ref[4].name = NullName
             /\ entities[e].fields[f]
                  = [name |-> "value", typeName |-> "Unknown",
                     isNonNull |-> TRUE, isList |-> TRUE]

----------------------------------------------------------------------------
\* The (entity, field) pairs whose field resolves to the name of a different
\* entity, and their position in entity order then field order.
EntityFields(e) ==
  IF TypeNamed(entities[e].name).hasFields
  THEN TypeNamed(entities[e].name).fields
  ELSE <<>>

EdgePairs ==
  {p \in UNION {{<<e, f>> : f \in DOMAIN EntityFields(e)} : e \in DOMAIN entities} :
     /\ IsEntityName(ResolvedName(EntityFields(p[1])[p[2]].type))
     /\ ResolvedName(EntityFields(p[1])[p[2]].type) # entities[p[1]].name}

Precedes(p, q) == p[1] < q[1] \/ (p[1] = q[1] /\ p[2] <= q[2])

Position(p) == Cardinality({q \in EdgePairs : Precedes(q, p)})

\* C11: after analyzeSchema the relationship list holds exactly one edge per
\* (entity, field) pair whose field resolves to the name of a different
\* entity, in entity order then field order, with isList the field's list
\* flag and direction "outgoing" (two fields to one target give two edges),
\* and the target's referencedBy holds each source exactly once.
C11_OneEdgePerReferencingField ==
  Returned =>
    /\ Len(relationships) = Cardinality(EdgePairs)
    /\ \A p \in EdgePairs :
         LET field == EntityFields(p[1])[p[2]]
         IN  relationships[Position(p)] =
               [from |-> entities[p[1]].name,
                to |-> ResolvedName(field.type),
                fieldName |-> field.name,
                isList |-> HasWrapper(field.type, "LIST"),
                direction |-> "outgoing"]
    /\ \A r \in DOMAIN relationships :
         \A b \in DOMAIN entities :
           entities[b].name = relationships[r].to =>
             Cardinality({i \in DOMAIN entities[b].referencedBy :
                            entities[b].referencedBy[i] = relationships[r].from}) = 1

\* C11 witness: User has the fields owner: Post and items: [Post]; the
\* analysis returned both edges, in field order, and Post lists User once.
C11_Witness ==
  /\ Returned
  /\ relationships =
       <<[from |-> "User", to |-> "Post", fieldName |-> "owner",
          isList |-> FALSE, direction |-> "outgoing"],
         [from |-> "User", to |-> "Post", fieldName |-> "items",
          isList |-> TRUE, direction |-> "outgoing"]>>
  /\ \E b \in DOMAIN entities :
       entities[b].name = "Post" /\ entities[b].referencedBy = <<"User">>

----------------------------------------------------------------------------
\* Vocabulary of the properties of generateBasicConfig.
Generated == pc = "generated"

BucketRank == [sensitive |-> 1, userSpecific |-> 2, volatile |-> 3, stable |-> 4]

Buckets == DOMAIN BucketRank

\* The bucket the characteristics of a cached entity select: the first that
\* matches of sensitive, user-specific, volatile, and stable otherwise.
FirstMatchingBucket(c) ==
  CHOOSE b \in Buckets :
    /\ b = "sensitive" => c.hasSensitiveFields
    /\ b = "userSpecific" => ~c.hasSensitiveFields /\ c.isUserSpecific
    /\ b = "volatile" => ~c.hasSensitiveFields /\ ~c.isUserSpecific /\ c.isVolatile
    /\ b = "stable" => ~c.hasSensitiveFields /\ ~c.isUserSpecific /\ ~c.isVolatile

\* The caching policy of a rule: its properties other than types.
PolicyOf(rule) == [f \in DOMAIN rule \ {"types"} |-> rule[f]]

FixedPolicy ==
  [sensitive |-> [scope |-> "private", maxAge |-> 60],
   userSpecific |-> [scope |-> "private", maxAge |-> 300, staleWhileRevalidate |-> 60],
   volatile |-> [maxAge |-> 60, staleWhileRevalidate |-> 30],
   stable |-> [maxAge |-> 900, staleWhileRevalidate |-> 300, staleIfError |-> 3600]]

RuleIsFor(rule, b) ==
  /\ DOMAIN PolicyOf(rule) = DOMAIN FixedPolicy[b]
  /\ PolicyOf(rule) = FixedPolicy[b]

\* The places <<rule, position>> at which a name stands in the rules.
Places(n) ==
  {pl \in UNION {{<<k, i>> : i \in DOMAIN config.rules[k].types}
                   : k \in DOMAIN config.rules} :
     config.rules[pl[1]].types[pl[2]] = n}

\* C12: generateBasicConfig puts every entity that is no root type into the
\* types list of exactly one rule, the rule of the first matching bucket of
\* sensitive, user-specific, volatile, stable; root-type entities stand in no
\* rule, and no entity name stands in two rules.
C12_OneRulePerEntity ==
  Generated =>
    \A e \in DOMAIN entities :
      IF entities[e].characteristics.isRootType
      THEN Places(entities[e].name) = {}
      ELSE /\ Cardinality(Places(entities[e].name)) = 1
           /\ \A pl \in Places(entities[e].name) :
                RuleIsFor(config.rules[pl[1]],
                          FirstMatchingBucket(entities[e].characteristics))

\* C12 witness: Account is sensitive, user-specific and volatile at once and
\* stands in the sensitive rule only, Session is user-specific and volatile
\* and stands in the user-specific rule, and the Mutation root is an entity
\* in no rule.
C12_Witness ==
  /\ Generated
  /\ \E e \in DOMAIN entities :
       /\ entities[e].name = "Account"
       /\ entities[e].characteristics.hasSensitiveFields
       /\ entities[e].characteristics.isUserSpecific
       /\ entities[e].characteristics.isVolatile
  /\ \E e \in DOMAIN entities :
       /\ entities[e].name = "Session"
       /\ ~entities[e].characteristics.hasSensitiveFields
       /\ entities[e].characteristics.isUserSpecific
       /\ entities[e].characteristics.isVolatile
  /\ IsEntityName("Mutation")
  /\ Places("Mutation") = {}
  /\ Len(config.rules) = 2
  /\ config.rules[1] = [types |-> <<"Account">>, scope |-> "private", maxAge |-> 60]
  /\ config.rules[2].types = <<"Session">>

\* The non-root entities whose first matching bucket is b.
EntitiesOfBucket(b) ==
  {e \in DOMAIN entities :
     /\ ~entities[e].characteristics.isRootType
     /\ FirstMatchingBucket(entities[e].characteristics) = b}

\* C13: generateBasicConfig emits one rule per non-empty bucket and none for
\* an empty one (at most four rules, none with an empty types list), in the
\* order sensitive, user-specific, volatile, stable, each with its fixed
\* policy: sensitive private / 60; user-specific private / 300 / SWR 60;
\* volatile 60 / SWR 30; stable 900 / SWR 300 / SIE 3600.
C13_OneRulePerNonEmptyBucket ==
  Generated =>
    /\ Len(config.rules) <= 4
    /\ \A k \in DOMAIN config.rules :
         /\ config.rules[k].types # <<>>
         /\ \E b \in Buckets : RuleIsFor(config.rules[k], b)
    /\ \A b \in Buckets :
         Cardinality({k \in DOMAIN config.rules : RuleIsFor(config.rules[k], b)})
           = (IF EntitiesOfBucket(b) = {} THEN 0 ELSE 1)
    /\ \A k, l \in DOMAIN config.rules :
         \A b, c \in Buckets :
           /\ k < l
           /\ RuleIsFor(config.rules[k], b)
           /\ RuleIsFor(config.rules[l], c)
           => BucketRank[b] < BucketRank[c]

\* C13 witness: four entities, one per bucket and declared in the reverse
\* order of the buckets, gave the four rules in bucket order.
C13_Witness ==
  /\ Generated
  /\ config.rules =
       <<[types |-> <<"Comment">>, scope |-> "private", maxAge |-> 60],
         [types |-> <<"Article">>, scope |-> "private", maxAge |-> 300,
          staleWhileRevalidate |-> 60],
         [types |-> <<"Session">>, maxAge |-> 60, staleWhileRevalidate |-> 30],
         [types |-> <<"Account">>, maxAge |-> 900, staleWhileRevalidate |-> 300,
          staleIfError |-> 3600]>>

\* The last mutation of a name among those with affected types, 0 if none.
LastAffecting(n) ==
  LET S == {i \in DOMAIN mutations :
              mutations[i].name = n /\ mutations[i].affectedTypes # <<>>}
  IN  IF S = {} THEN 0 ELSE CHOOSE i \in S : \A j \in S : j <= i

Entries(n) ==
  {i \in DOMAIN config.invalidations : config.invalidations[i].key = n}

\* C14: the invalidation map has an entry for a mutation name iff a mutation
\* of that name has a non-empty affectedTypes; the entry is the list of the
\* strings "<Type>:*", one per affected type in order (the types of the last
\* such mutation, should two root fields carry one name); a mutation with
\* empty affectedTypes brings no entry.
C14_InvalidationEntries ==
  Generated =>
    /\ \A i \in DOMAIN config.invalidations :
         /\ LastAffecting(config.invalidations[i].key) # 0
         /\ Cardinality(Entries(config.invalidations[i].key)) = 1
    /\ \A m \in DOMAIN mutations :
         IF LastAffecting(mutations[m].name) = 0
         THEN Entries(mutations[m].name) = {}
         ELSE \E i \in Entries(mutations[m].name) :
                LET types == mutations[LastAffecting(mutations[m].name)].affectedTypes
                    entry == config.invalidations[i].value
                IN  /\ Len(entry) = Len(types)
                    /\ \A t \in DOMAIN types : entry[t] = types[t] \o ":*"

\* C14 witness: of the mutations createAccount, ping and removeArticle the
\* first and the last have affected types and an entry each; ping has none.
C14_Witness ==
  /\ Generated
  /\ [m \in DOMAIN mutations |-> mutations[m].name]
       = <<"createAccount", "ping", "removeArticle">>
  /\ mutations[2].affectedTypes = <<>>
  /\ config.invalidations =
       <<[key |-> "createAccount", value |-> <<"Account:*">>],
         [key |-> "removeArticle", value |-> <<"Article:*">>]>>

----------------------------------------------------------------------------
\* Vocabulary of the properties of generateCacheConfig.
Settled == gpc = "settled"

KeyMissing == aiConfig.apiKey = ""

ProviderFailed ==
  \/ server.kind = "networkError"
  \/ server.kind = "response" /\ ~server.ok

\* The provider answered with a result that holds a text.
TextAnswered ==
  /\ ~KeyMissing
  /\ server.kind = "response"
  /\ server.ok
  /\ server.json.type = "normal"
  /\ extractResponse(aiConfig.provider, server.json.value).type = "normal"
  /\ extractResponse(aiConfig.provider, server.json.value).value.t = "string"

AnswerText == extractResponse(aiConfig.provider, server.json.value).value.v

EveryStepSucceeds == TextAnswered /\ parseAIResponse(AnswerText).type = "normal"

\* C15: generateCacheConfig never throws: whichever step fails (API key
\* missing, provider call, parsing of the response, conversion) it resolves
\* to a result with success = false, an error message and no config; when
\* every step succeeds it resolves to success = true with config and
\* aiResponse.
C15_StructuredOutcome ==
  /\ generation.status # "rejected"
  /\ Settled =>
       /\ generation.status = "fulfilled"
       /\ IF EveryStepSucceeds
          THEN /\ DOMAIN generation.value = {"success", "config", "aiResponse"}
               /\ generation.value.success
          ELSE /\ DOMAIN generation.value = {"success", "error"}
               /\ ~generation.value.success
               /\ generation.value.error # ""

\* C15 witness: the provider answered with a text that is no JSON; the call
\* resolved to a failure that carries the parser's error.
C15_Witness ==
  /\ Settled
  /\ TextAnswered
  /\ AnswerText = "not json"
  /\ generation =
       [status |-> "fulfilled",
        value |-> [success |-> FALSE,
                   error |-> "Failed to parse AI response: Unexpected token in JSON"]]

\* C16: one generateCacheConfig request issues at most one HTTP request; a
\* non-success status or a network error is not retried and surfaces as a
\* failure whose message carries the provider name (and the status, where
\* there is one); with the API key missing the request fails before any
\* provider call.
C16_OneRequestFailureNamesProvider ==
  /\ Len(requests) <= 1
  /\ KeyMissing => requests = <<>>
  /\ (Settled /\ ~KeyMissing /\ ProviderFailed) =>
       /\ Len(requests) = 1
       /\ generation.status = "fulfilled"
       /\ ~generation.value.success
       /\ includes(generation.value.error, errorPrefix[aiConfig.provider])
       /\ server.kind = "response" =>
            includes(generation.value.error, numberToString(server.status))

\* The text without the fenced code block that encloses it, if one does.
Stripped(text) ==
  LET t == trim(text)
  IN  IF Len(t) >= 2 * Len(Fence) /\ startsWith(t, Fence) /\ endsWith(t, Fence)
      THEN LET inner == SubSeq(t, Len(Fence) + 1, Len(t) - Len(Fence))
           IN  trim(IF startsWith(inner, "json") THEN slice(inner, 4) ELSE inner)
      ELSE t

IsJson(text) == \E d \in DOMAIN JsonDocuments : JsonDocuments[d].text = trim(text)

JsonValue(text) ==
  JsonDocuments[CHOOSE d \in DOMAIN JsonDocuments :
                  JsonDocuments[d].text = trim(text)].value

HasRulesArray(text) ==
  /\ IsJson(text)
  /\ JsonValue(text).t = "object"
  /\ \E i \in DOMAIN JsonValue(text).v :
       /\ JsonValue(text).v[i].key = "rules"
       /\ JsonValue(text).v[i].value.t = "array"

\* C17: parseAIResponse fails with "Failed to parse AI response: ..." when
\* the text, an enclosing fenced code block stripped, is no JSON or has no
\* rules array; otherwise it succeeds, and every returned rule has a maxAge
\* (300 if it had none), a non-empty reasoning (the placeholder if it had
\* none) and a types list ([] if it had none).
C17_ParseOutcome ==
  (Settled /\ TextAnswered) =>
    IF HasRulesArray(Stripped(AnswerText))
    THEN /\ generation.value.success
         /\ \A i \in DOMAIN generation.value.aiResponse.rules :
              LET rule == generation.value.aiResponse.rules[i]
              IN  /\ rule.maxAge.t \notin {"undefined", "null"}
                  /\ rule.reasoning.t = "string" /\ rule.reasoning.v # ""
                  /\ rule.types.t = "array"
    ELSE /\ ~generation.value.success
         /\ startsWith(generation.value.error, "Failed to parse AI response: ")

----------------------------------------------------------------------------
\* Vocabulary of the properties of the credential and endpoint operations.

\* The file holds a JSON object whose ai section stores some API key.
HoldsApiKey(file) ==
  /\ file.exists
  /\ file.content.t = "object"
  /\ \E i \in DOMAIN file.content.v :
       /\ file.content.v[i].key = "ai"
       /\ file.content.v[i].value.t = "object"
       /\ \E k \in DOMAIN file.content.v[i].value.v :
            /\ file.content.v[i].value.v[k].value.t = "string"
            /\ file.content.v[i].value.v[k].value.v # ""

\* C18: in every state reachable through saveAIKeyToCredentials, between
\* its write and its chmod and after a failed step too, a credentials file
\* that holds an API key has the permission bits 0600.
C18_KeyFileOwnerOnly ==
  HoldsApiKey(credentialsFile) => credentialsFile.mode = "0600"

\* C19: getSavedCredentials, getAIKeyFromCredentials, saveAIKeyToCredentials,
\* getGraphQLEndpointFromTerraform and testEndpointReachability never reject:
\* a missing key or file, an unreadable file, a failed write and an
\* unreachable endpoint are reported in the value returned.
C19_OperationsNeverReject == outcome.status # "rejected"

\* The failure fetchSchema reports for a timeout of the call.
TimeoutResult ==
  [success |-> FALSE,
   error |-> "Request timeout after " \o numberToString(timeout) \o "ms"]

\* The time of the call is over and the server, which answers with a
\* success status, has not completed its response.
TimedOut ==
  /\ origin.kind = "response"
  /\ origin.ok
  /\ clock > timeout
  /\ delivered # "body"

\* C20: fetchSchema honours the timeout of its caller: its promise is never
\* rejected, and once more than the timeout has passed without the server
\* having delivered headers and body, the call has terminated and its promise
\* is fulfilled with {success: false, error: "Request timeout after Tms"};
\* it is not pending any more.
C20_TimeoutHonoured ==
  /\ introspection.status # "rejected"
  /\ TimedOut =>
       /\ fpc = "settled"
       /\ introspection = [status |-> "fulfilled", value |-> TimeoutResult]

LinesOf(text) ==
  LET feeds == {i \in 1..Len(text) : SubSeq(text, i, i) = "\n"}
      feed(k) == CHOOSE p \in feeds : Cardinality({q \in feeds : q <= p}) = k
  IN  [k \in 1..(Cardinality(feeds) + 1) |->
         SubSeq(text,
                IF k = 1 THEN 1 ELSE feed(k - 1) + 1,
                IF k = Cardinality(feeds) + 1 THEN Len(text) ELSE feed(k) - 1)]

\* The lines of the summary rendered first.
SummaryText == LinesOf(summaries[1])

\* The lines of the text that start with the prefix, in their order.
Starting(lines, prefix) == SelectSeq(lines, LAMBDA l : startsWith(l, prefix))

\* The lines of the section under the header: those after the header line up
\* to the next header line; none if the header is absent.
Section(lines, header) ==
  IF \E h \in 1..Len(lines) : lines[h] = header
  THEN LET h == CHOOSE k \in 1..Len(lines) : lines[k] = header
           ends == {k \in (h + 1)..Len(lines) : startsWith(lines[k], "## ")}
           last == IF ends = {} THEN Len(lines)
                   ELSE (CHOOSE k \in ends : \A j \in ends : k <= j) - 1
       IN  SubSeq(lines, h + 1, last)
  ELSE <<>>

\* The positions in the lines of a section of the lines that start with "- ".
ItemPositions(section) == {k \in 1..Len(section) : startsWith(section[k], "- ")}

\* The position of the k-th item of a section.
ItemPosition(section, k) ==
  CHOOSE p \in ItemPositions(section) :
    Cardinality({q \in ItemPositions(section) : q <= p}) = k

\* The entities that are not flagged as root types, in their order.
Unflagged == SelectSeq(entities, LAMBDA e : ~e.characteristics.isRootType)

\* C23: the summary has its sections in the order entities, queries,
\* mutations, relationships; the entity section has one "### name" heading
\* for each entity not flagged rootType and none for a flagged one; the
\* mutation section is there iff there is a mutation, with one item per
\* mutation, followed by an "Affects:" line iff the mutation's affectedTypes
\* is not empty; the relationship section is there iff there is an edge,
\* with one item per edge, "->>" for isList and "->" otherwise.
C23_SummarySections ==
  Len(summaries) >= 1 =>
    LET text == SummaryText
        mutationSection == Section(text, "## Mutation Operations")
        relationshipSection == Section(text, "## Type Relationships")
    IN  /\ Starting(text, "## ")
             = <<"## Entity Types", "## Query Operations">>
                 \o (IF Len(mutations) > 0 THEN <<"## Mutation Operations">>
                     ELSE <<>>)
                 \o (IF Len(relationships) > 0 THEN <<"## Type Relationships">>
                     ELSE <<>>)
        /\ Starting(text, "### ")
             = [i \in 1..Len(Unflagged) |-> "### " \o Unflagged[i].name]
        /\ Starting(Section(text, "## Entity Types"), "### ")
             = Starting(text, "### ")
        /\ Cardinality(ItemPositions(mutationSection)) = Len(mutations)
        /\ \A k \in 1..Len(mutations) :
             LET p == ItemPosition(mutationSection, k)
             IN  /\ startsWith(mutationSection[p],
                               "- " \o mutations[k].name \o "(")
                 /\ startsWith(mutationSection[p + 1], "  Affects: ")
                      <=> Len(mutations[k].affectedTypes) > 0
        /\ Len(Starting(text, "  Affects: "))
             = Len(SelectSeq(mutations, LAMBDA o : Len(o.affectedTypes) > 0))
        /\ relationshipSection
             = IF Len(relationships) = 0 THEN <<>>
               ELSE <<"">> \o
                    [k \in 1..Len(relationships) |->
                       "- " \o relationships[k].from
                         \o (IF relationships[k].isList THEN " ->> " ELSE " -> ")
                         \o relationships[k].to
                         \o " (via " \o relationships[k].fieldName \o ")"]

\* A summary was rendered of an analysis with a flagged and an unflagged
\* entity, a mutation with and one without affected types, and edges of
\* both kinds.
C23_Witness ==
  /\ Len(summaries) >= 1
  /\ \E i, j \in 1..Len(entities) :
       /\ entities[i].characteristics.isRootType
       /\ ~entities[j].characteristics.isRootType
  /\ \E k \in 1..Len(mutations) : mutations[k].affectedTypes # <<>>
  /\ \E k \in 1..Len(relationships) : relationships[k].isList
  /\ \E k \in 1..Len(relationships) : ~relationships[k].isList

NoVerbPrefix(name) == \A p \in VerbPrefixes : ~startsWith(toLowerCase(name), p)

\* The mutation's effect cannot be inferred: no verb prefix, and a return
\* type that is no entity.
InferenceMiss(op) == NoVerbPrefix(op.name) /\ ~IsEntityName(op.returnType)

\* C25: a mutation whose name starts with none of the nine verb prefixes and
\* whose return type is not an entity has affectedTypes = [], and the miss is
\* silent: an analysis that meets no null type reference does not fail.
C25_InferenceMissSilent ==
  /\ MutationsExtracted =>
       \A m \in DOMAIN mutations :
         InferenceMiss(mutations[m]) => mutations[m].affectedTypes = <<>>
  /\ ~NullRefMet => pc # "failed"

\* outputs.compute_service.value of the terraform state, undefined when the
\* file is missing or holds no JSON object with that path.
ComputeServiceValue ==
  IF tfstateFile.exists /\ tfstateFile.content.t = "object"
  THEN optionalProp(optionalProp(getProp(tfstateFile.content, "outputs"),
                                 "compute_service"),
                    "value")
  ELSE Undefined

\* The state holds a backend domain, and a backend protocol.
DomainPresent == optionalProp(ComputeServiceValue, "backend_domain").t = "string"

ProtocolPresent ==
  optionalProp(ComputeServiceValue, "backend_protocol").t = "string"

\* C26: getGraphQLEndpointFromTerraform resolves to null whenever the state
\* file is missing, unreadable, no JSON, or without
\* outputs.compute_service.value.backend_domain; a result that is not null is
\* protocol://domain/graphql for the domain and the protocol of the state.
C26_EndpointFromState ==
  (cop.name = "getGraphQLEndpointFromTerraform" /\ outcome.status = "fulfilled")
    => /\ ~DomainPresent => outcome.value = JNull
       /\ outcome.value # JNull =>
            /\ DomainPresent
            /\ ProtocolPresent
            /\ outcome.value =
                 JStr(optionalProp(ComputeServiceValue, "backend_protocol").v
                        \o "://"
                        \o optionalProp(ComputeServiceValue, "backend_domain").v
                        \o "/graphql")

\* The name is the one of a root operation type of the schema: the type
\* designated by queryType, mutationType or subscriptionType.
RootOperationType(n) ==
  \E root \in {schema.queryType, schema.mutationType, schema.subscriptionType} :
    ~root.isNull /\ root.name = n

\* C27: the isRootType characteristic of an entity is true exactly when the
\* entity is a root operation type of the schema; hence no root operation
\* type has a heading in the entity section of the summary, and none stands
\* in a rule of generateBasicConfig.
C27_RootTypeFlag ==
  /\ EntitiesExtracted =>
       \A e \in DOMAIN entities :
         entities[e].characteristics.isRootType
           <=> RootOperationType(entities[e].name)
  /\ Len(summaries) >= 1 =>
       \A e \in DOMAIN entities :
         RootOperationType(entities[e].name)
           => ~contains(Starting(SummaryText, "### "), "### " \o entities[e].name)
  /\ Generated =>
       \A e \in DOMAIN entities :
         RootOperationType(entities[e].name) => Places(entities[e].name) = {}

C29_ReferencesMatchEdges ==
  Returned =>
    /\ \A a \in DOMAIN entities :
         Elems(entities[a].references) \subseteq
           {entities[e].name : e \in DOMAIN entities}
    /\ \A a, b \in DOMAIN entities :
         entities[a].name # entities[b].name =>
           LET inReferences == entities[b].name \in Elems(entities[a].references)
               hasEdge == \E r \in DOMAIN relationships :
                            /\ relationships[r].from = entities[a].name
                            /\ relationships[r].to = entities[b].name
               inReferencedBy ==
                 entities[a].name \in Elems(entities[b].referencedBy)
           IN  /\ inReferences <=> hasEdge
               /\ hasEdge <=> inReferencedBy


\* The names of the properties of an object, none for any other value.
KeysOf(value) ==
  IF value.t = "object" THEN {value.v[i].key : i \in DOMAIN value.v} ELSE {}

\* What a parse of the file's text gives: its document, or nothing for a
\* missing file and for a text that is no JSON.
Stored(file) == IF file.exists THEN file.content ELSE Garbage

\* C30: whenever the credentials file changes, a saveAIKeyToCredentials is
\* under way, every stored entry other than ai[provider] and savedAt (the
\* keys of the other providers, the other sections) is still there with its
\* previous value, and ai[provider] is the key being saved; so after any
\* sequence of saves the file holds each provider's latest key.
C30_SaveFrame ==
  [][Stored(credentialsFile') # Stored(credentialsFile) =>
       LET before == Stored(credentialsFile)
           after == Stored(credentialsFile')
       IN  /\ cop.name = "saveAIKeyToCredentials"
           /\ \A section \in KeysOf(before) \ {"ai", "savedAt"} :
                getProp(after, section) = getProp(before, section)
           /\ \A other \in KeysOf(getProp(before, "ai")) \ {cop.provider} :
                getProp(getProp(after, "ai"), other)
                  = getProp(getProp(before, "ai"), other)
           /\ getProp(getProp(after, "ai"), cop.provider) = JStr(cop.apiKey)]_vars

====
